---- MODULE Spec2Model ----
(***************************************************************************)
(* A model of the analysis pipeline of codebase-constellations             *)
(* (parser.js): analyzeCodebase, which builds the file graph, and          *)
(* analyzeSymbols, which builds the symbol graph.                          *)
(*                                                                         *)
(* Strings that the code takes apart (paths, import specifiers, symbol     *)
(* ids, map keys) are sequences of tokens: "./lib/a.js" is                 *)
(* <<".", "/", "lib", "/", "a", ".js">>.  Concatenation of strings is      *)
(* concatenation of sequences; an identifier is one token.                 *)
(***************************************************************************)
EXTENDS Integers, Sequences, FiniteSets, TLC

VARIABLES
    fs,          \* the disk: absolute path -> entry (file with content, or directory)
    pc,          \* the position of the running analysis
    uniqueFiles, \* the scanned files, in scan order
    fileData,    \* analyzeCodebase: file id -> extracted facts
    nodes,       \* analyzeCodebase: the node list
    edgeMap,     \* analyzeCodebase: the edge records, in insertion order
    graph,       \* analyzeCodebase: the returned value
    idx,         \* analyzeSymbols: the index of the file the running pass is at
    allSymbols,  \* analyzeSymbols: the symbols, in extraction order
    allEdges,    \* analyzeSymbols: the emitted edges, in emission order
    fileImports, \* analyzeSymbols: file -> its resolved import bindings
    symbolByFile,\* analyzeSymbols: file -> symbol name -> symbol id
    heap,        \* the condition arrays, by reference: array id -> content
    edgeMap2,    \* analyzeSymbols: the deduplicated edges, in insertion order
    emitted,     \* history: the conditions each emitted edge carried when emitted
    fileCalls,   \* analyzeSymbols: the call facts extracted in the current turn
    result,      \* analyzeSymbols: the returned value
    cachedGraph,  \* server: the cached file graph, or null
    cachedTarget, \* server: the cached root directory, or null
    cachedSymbols,\* server: the cached symbol graph, or null
    requests      \* server: the requests received so far, each with its position

fileVars == <<fileData, nodes, edgeMap, graph>>

symVars == <<idx, allSymbols, allEdges, fileImports, symbolByFile, heap, edgeMap2,
             emitted, fileCalls, result>>

srvVars == <<cachedGraph, cachedTarget, cachedSymbols, requests>>

\* What a request handler of the server leaves alone.
analysisVars == <<pc, uniqueFiles, fileVars, symVars>>

vars == <<fs, pc, uniqueFiles, fileVars, symVars, srvVars>>

-----------------------------------------------------------------------------
(* Bounds of the model.                                                    *)

\* The most import statements one scanned source file holds.
MaxImports == 2

\* The most call statements the body of one function holds.
MaxCalls == 3

\* The most requests the server receives (the auto-analysis of the command
\* line counted as one).
MaxRequests == 3

\* The most statements after the import of b.js in the call-site inputs.
MaxStatements == 2

\* The most statements of a.js in the declaration inputs.
MaxDeclarations == 2

\* The most declarations of a.js in the method-call inputs.
MaxMembers == 3

-----------------------------------------------------------------------------
(* Sequences.                                                              *)

Range(s) == {s[i] : i \in 1..Len(s)}

RECURSIVE Flatten(_)
Flatten(ss) == IF ss = <<>> THEN <<>> ELSE Head(ss) \o Flatten(Tail(ss))

Last(s) == s[Len(s)]

Front(s) == SubSeq(s, 1, Len(s) - 1)

\* The sequences over S of length at most n.
SeqUpTo(S, n) == UNION {[1..k -> S] : k \in 0..n}

\* The orders (permutations) of a finite set, as sequences.
Orders(S) == {s \in [1..Cardinality(S) -> S] : Range(s) = S}

RECURSIVE SumSeq(_)
SumSeq(s) == IF s = <<>> THEN 0 ELSE Head(s) + SumSeq(Tail(s))

-----------------------------------------------------------------------------
(* Strings as token sequences, and their order.                            *)

\* The tokens of the model in the order of their JavaScript string
\* comparison (UTF-16 code units): "." 46 < "/" 47 < ":" 58 < upper case
\* < lower case < "|" 124.
TokenOrder ==
    << ".", "..", ".cjs", ".htm", ".html", ".js", ".jsx", ".md", ".mjs",
       ".ts", ".tsx", "/", "::",
       "C", "D", "X", "Y",
       "a", "b", "bar", "calls", "cond", "default", "f", "foo", "g", "h", "https:",
       "imports",
       "index", "lib", "lodash", "m", "n", "o", "p", "r", "x", "y", "z",
       "|", "|||" >>

TokenRank(t) == CHOOSE i \in 1..Len(TokenOrder) : TokenOrder[i] = t

\* The tokens that start with the character ".".
DotTokens == {".", "..", ".cjs", ".htm", ".html", ".js", ".jsx", ".md",
              ".mjs", ".ts", ".tsx"}

RECURSIVE StrLess(_, _)
\* s < t as JavaScript compares strings (Array.prototype.sort's default).
StrLess(s, t) ==
    IF t = <<>> THEN FALSE
    ELSE IF s = <<>> THEN TRUE
    ELSE IF Head(s) = Head(t) THEN StrLess(Tail(s), Tail(t))
    ELSE TokenRank(Head(s)) < TokenRank(Head(t))

StartsWith(s, t) == Len(s) >= Len(t) /\ SubSeq(s, 1, Len(t)) = t

EndsWith(s, t) ==
    Len(s) >= Len(t) /\ SubSeq(s, Len(s) - Len(t) + 1, Len(s)) = t

-----------------------------------------------------------------------------
(* Node's path module, on token sequences.                                 *)

RECURSIVE Split(_)
\* The segments of a path: the runs of tokens between "/" tokens.
Split(p) ==
    IF p = <<>> THEN <<>>
    ELSE IF Head(p) = "/" THEN Split(Tail(p))
    ELSE LET rest == Split(Tail(p))
         IN  IF Len(p) > 1 /\ p[2] # "/"
             THEN <<(<<Head(p)>> \o Head(rest))>> \o Tail(rest)
             ELSE <<(<<Head(p)>>)>> \o rest

RECURSIVE JoinSegs(_)
JoinSegs(segs) ==
    IF segs = <<>> THEN <<>>
    ELSE IF Len(segs) = 1 THEN Head(segs)
    ELSE Head(segs) \o <<"/">> \o JoinSegs(Tail(segs))

RECURSIVE NormSegs(_, _)
\* Resolve "." and ".." segments of an absolute path, left to right.
NormSegs(done, segs) ==
    IF segs = <<>> THEN done
    ELSE IF Head(segs) = <<".">> THEN NormSegs(done, Tail(segs))
    ELSE IF Head(segs) = <<"..">>
         THEN NormSegs(IF done = <<>> THEN <<>> ELSE Front(done), Tail(segs))
    ELSE NormSegs(Append(done, Head(segs)), Tail(segs))

AbsPath(segs) == <<"/">> \o JoinSegs(segs)

\* path.resolve(dir, p) for an absolute dir.
PathResolve(dir, p) ==
    IF p # <<>> /\ Head(p) = "/"
    THEN AbsPath(NormSegs(<<>>, Split(p)))
    ELSE AbsPath(NormSegs(<<>>, Split(dir) \o Split(p)))

\* path.join(a, b) for an absolute a.
PathJoin(a, b) == AbsPath(NormSegs(<<>>, Split(a) \o Split(b)))

\* path.dirname(p) of an absolute or a relative path.
PathDirname(p) ==
    LET segs == Split(p)
    IN  IF p # <<>> /\ Head(p) = "/"
        THEN AbsPath(IF segs = <<>> THEN <<>> ELSE Front(segs))
        ELSE IF Len(segs) <= 1 THEN <<".">> ELSE JoinSegs(Front(segs))

RECURSIVE CommonPrefixLen(_, _)
CommonPrefixLen(a, b) ==
    IF a = <<>> \/ b = <<>> \/ Head(a) # Head(b) THEN 0
    ELSE 1 + CommonPrefixLen(Tail(a), Tail(b))

\* path.relative(from, to) for two absolute, normalized paths.
PathRelative(from, to) ==
    LET f == Split(from)
        t == Split(to)
        k == CommonPrefixLen(f, t)
    IN  JoinSegs([i \in 1..(Len(f) - k) |-> <<"..">>] \o SubSeq(t, k + 1, Len(t)))

\* path.extname(p): the last "."-token of the last segment, unless the
\* segment starts with it.
PathExtname(p) ==
    LET segs == Split(p)
    IN  IF segs = <<>> THEN <<>>
        ELSE LET base == Last(segs)
             IN  IF Len(base) >= 2 /\ Last(base) \in DotTokens
                    /\ Last(base) \notin {".", ".."}
                 THEN <<Last(base)>> ELSE <<>>

-----------------------------------------------------------------------------
(* Program constants (parser.js).                                          *)

EXTENSIONS == << <<".js">>, <<".jsx">>, <<".ts">>, <<".tsx">>, <<".mjs">>, <<".cjs">> >>

ALL_EXTENSIONS == EXTENSIONS \o << <<".html">>, <<".htm">> >>

IGNORE_DIRS == { <<"node_modules">>, <<"dist">>, <<"build">>, <<".next">>,
                 <<"coverage">>, <<".git">>, <<"vendor">>, <<"__pycache__">> }

-----------------------------------------------------------------------------
(* Syntax trees.  A node is a record of one shape; the fields a node type   *)
(* does not have are empty.  Statements and expressions that are only       *)
(* wrappers (ExpressionStatement, BlockStatement, ClassBody) are left out:  *)
(* no visitor of parser.js reads them.                                      *)

Nd == [type |-> "", name |-> "", obj |-> "", kind |-> "", value |-> <<>>,
       specifiers |-> <<>>, test |-> <<>>, kids |-> <<>>, alt |-> <<>>,
       hasAlt |-> FALSE]

Program(body) == [Nd EXCEPT !.type = "Program", !.kids = body]

\* import <specifiers> from "<source>"
ImportDeclaration(source, specifiers) ==
    [Nd EXCEPT !.type = "ImportDeclaration", !.value = source,
               !.specifiers = specifiers]

\* One import specifier: its node type, local name and imported name
\* ("" where the node has none).
ImportSpecifier(local, imported) ==
    [type |-> "ImportSpecifier", local |-> local, imported |-> imported]

ImportDefaultSpecifier(local) ==
    [type |-> "ImportDefaultSpecifier", local |-> local, imported |-> ""]

ImportNamespaceSpecifier(local) ==
    [type |-> "ImportNamespaceSpecifier", local |-> local, imported |-> ""]

StringLiteral(v) == [Nd EXCEPT !.type = "StringLiteral", !.value = v]

NumericLiteral == [Nd EXCEPT !.type = "NumericLiteral"]

Identifier(n) == [Nd EXCEPT !.type = "Identifier", !.name = n]

\* name(args): a call whose callee is the identifier `name`.
Call(n, args) ==
    [Nd EXCEPT !.type = "CallExpression", !.kind = "Identifier", !.name = n,
               !.kids = args]

\* obj.name(args): a call whose callee is a member of the identifier `obj`.
MemberCall(o, n, args) ==
    [Nd EXCEPT !.type = "CallExpression", !.kind = "MemberExpression",
               !.obj = o, !.name = n, !.kids = args]

\* import(args)
ImportCall(args) ==
    [Nd EXCEPT !.type = "CallExpression", !.kind = "Import", !.kids = args]

FunctionDeclaration(n, body) ==
    [Nd EXCEPT !.type = "FunctionDeclaration", !.name = n, !.kids = body]

ArrowFunctionExpression(body) ==
    [Nd EXCEPT !.type = "ArrowFunctionExpression", !.kids = body]

FunctionExpression(body) ==
    [Nd EXCEPT !.type = "FunctionExpression", !.kids = body]

\* One declarator `name = init` (init: a sequence of no or one node; the
\* name is "" for a destructuring pattern, whose kind is then ObjectPattern).
VariableDeclarator(n, init) ==
    [Nd EXCEPT !.type = "VariableDeclarator", !.name = n, !.kind = "Identifier",
               !.kids = init]

VariableDeclaration(declarators) ==
    [Nd EXCEPT !.type = "VariableDeclaration", !.kids = declarators]

\* A class member `key(){body}`; kind is method, get, set or constructor.
ClassMethod(key, kind, body) ==
    [Nd EXCEPT !.type = "ClassMethod", !.name = key, !.kind = kind,
               !.kids = body]

\* class name [extends superClass] { members }
ClassDeclaration(n, superClass, members) ==
    [Nd EXCEPT !.type = "ClassDeclaration", !.name = n, !.obj = superClass,
               !.kids = members]

\* export <declaration>, or export { specifiers } (the exported names).
ExportNamedDeclaration(declaration, exported) ==
    [Nd EXCEPT !.type = "ExportNamedDeclaration", !.kids = declaration,
               !.specifiers = exported]

ExportDefaultDeclaration(declaration) ==
    [Nd EXCEPT !.type = "ExportDefaultDeclaration", !.kids = <<declaration>>]

\* obj.name = right
AssignmentExpression(o, n, right) ==
    [Nd EXCEPT !.type = "AssignmentExpression", !.kind = "MemberExpression",
               !.obj = o, !.name = n, !.kids = <<right>>]

\* { keys... }
ObjectExpression(keys) ==
    [Nd EXCEPT !.type = "ObjectExpression", !.specifiers = keys]

\* if (test) { consequent } [else { alternate }]; value is the source text
\* of the test.
IfStatement(text, test, consequent, hasAlt, alternate) ==
    [Nd EXCEPT !.type = "IfStatement", !.value = text, !.test = test,
               !.kids = consequent, !.hasAlt = hasAlt, !.alt = alternate]

\* test ? consequent : alternate
ConditionalExpression(text, test, consequent, alternate) ==
    [Nd EXCEPT !.type = "ConditionalExpression", !.value = text, !.test = test,
               !.kids = consequent, !.hasAlt = TRUE, !.alt = alternate]

TSTypeAliasDeclaration(n) == [Nd EXCEPT !.type = "TSTypeAliasDeclaration", !.name = n]

TSInterfaceDeclaration(n) == [Nd EXCEPT !.type = "TSInterfaceDeclaration", !.name = n]

\* The children of a node in the order @babel/traverse visits them.
Children(n) == n.test \o n.kids \o n.alt

RECURSIVE Size(_)
\* The length of a node's source text, in units: every node takes one unit
\* to open and one to close around its children; the branches of an if
\* statement are blocks in braces, the arms of a ternary follow "?" and ":".
Size(n) ==
    LET Sum(l) == SumSeq([i \in 1..Len(l) |-> Size(l[i])])
    IN  IF n.type = "IfStatement"
        THEN 2 + Sum(n.test) + (2 + Sum(n.kids)) + (IF n.hasAlt THEN 2 + Sum(n.alt) ELSE 0)
        ELSE IF n.type = "ConditionalExpression"
        THEN 3 + Sum(n.test) + Sum(n.kids) + Sum(n.alt)
        ELSE 2 + Sum(Children(n))

SizeOfAll(l) == SumSeq([i \in 1..Len(l) |-> Size(l[i])])

\* node.alternate.start and node.alternate.end of an if statement or a
\* ternary that starts at `start`.
AltStart(n, start) ==
    IF n.type = "IfStatement"
    THEN start + 2 + SizeOfAll(n.test) + 2 + SizeOfAll(n.kids)
    ELSE start + 3 + SizeOfAll(n.test) + SizeOfAll(n.kids)

AltEnd(n, start) ==
    IF n.type = "IfStatement"
    THEN AltStart(n, start) + 2 + SizeOfAll(n.alt)
    ELSE AltStart(n, start) + SizeOfAll(n.alt)

\* Where the nodes of the list l start when the first starts at `from`.
StartsFrom(l, from) == [i \in 1..Len(l) |-> from + SizeOfAll(SubSeq(l, 1, i - 1))]

\* node.start of each child, in the order of Children.
ChildStarts(n, start) ==
    IF n.type = "IfStatement"
    THEN StartsFrom(n.test, start + 1)
         \o StartsFrom(n.kids, start + 2 + SizeOfAll(n.test) + 1)
         \o StartsFrom(n.alt, AltStart(n, start) + 1)
    ELSE IF n.type = "ConditionalExpression"
    THEN StartsFrom(n.test, start + 1)
         \o StartsFrom(n.kids, start + 2 + SizeOfAll(n.test))
         \o StartsFrom(n.alt, AltStart(n, start))
    ELSE StartsFrom(Children(n), start + 1)

RECURSIVE Walk(_, _, _)
\* traverse(ast, visitors): the node paths in the order their visitors run
\* (depth first, a node before its children).  A path is the sequence of
\* the nodes from the Program down to the visited node, each with its
\* start offset.
Walk(n, ancestors, start) ==
    LET here == Append(ancestors, [node |-> n, start |-> start])
        starts == ChildStarts(n, start)
        sub[i \in 0..Len(Children(n))] ==
            IF i = 0 THEN <<>>
            ELSE sub[i - 1] \o Walk(Children(n)[i], here, starts[i])
    IN  <<here>> \o sub[Len(Children(n))]

Traverse(ast) == Walk(ast, <<>>, 0)

\* nodePath.node, nodePath.parent and the parent's parent ("" for none).
NodeOf(path) == Last(path).node

StartOf(path) == Last(path).start

EndOf(path) == Last(path).start + Size(Last(path).node)

ParentType(path) == IF Len(path) >= 2 THEN path[Len(path) - 1].node.type ELSE ""

GrandParentType(path) == IF Len(path) >= 3 THEN path[Len(path) - 2].node.type ELSE ""

-----------------------------------------------------------------------------
(* The disk.  fs maps the absolute path of every existing entry to a       *)
(* record: a directory, or a file with the number of lines of its text      *)
(* (text.split("\n").length), whether @babel/parser accepts the text, the   *)
(* syntax tree it then returns, and, for an HTML file, the src values of    *)
(* its <script src> tags in document order.                                 *)

\* The analysed root directory (absolute, as the callers resolve it).
RootDir == <<"/", "r">>

DirEntry == [kind |-> "dir", lines |-> 0, parses |-> FALSE, ast |-> Program(<<>>),
             scripts |-> <<>>]

\* A source file whose text parses to `ast`.
SourceFile(lines, ast) ==
    [kind |-> "file", lines |-> lines, parses |-> TRUE, ast |-> ast, scripts |-> <<>>]

\* A source file with a syntax error.
BrokenFile(lines) ==
    [kind |-> "file", lines |-> lines, parses |-> FALSE, ast |-> Program(<<>>),
     scripts |-> <<>>]

HtmlFile(lines, scripts) ==
    [kind |-> "file", lines |-> lines, parses |-> FALSE, ast |-> Program(<<>>),
     scripts |-> scripts]

\* fs.existsSync(p)
ExistsSync(disk, p) == p \in DOMAIN disk

\* The result of a function that returns null or undefined where a string is
\* expected.  The code tests such results for truthiness only, and the empty
\* string is falsy as well.
Null == <<>>

\* glob(pattern, {cwd: rootDir, ignore}): the files below rootDir whose name
\* ends in ext and that lie in no ignored directory, as paths relative to
\* rootDir.
GlobMatches(disk, rootDir, ext) ==
    { PathRelative(rootDir, p) : p \in
        { q \in DOMAIN disk :
            /\ disk[q].kind = "file"
            /\ StartsWith(q, rootDir \o <<"/">>)
            /\ PathExtname(q) = ext
            /\ \A i \in 1..Len(Split(q)) : Split(q)[i] \notin IGNORE_DIRS } }

\* The lists the scan can return: the matches of each pattern in the order of
\* the patterns; glob fixes no order among the matches of one pattern.
ScanOrders(disk, rootDir, exts) ==
    LET choices[i \in 0..Len(exts)] ==
            IF i = 0 THEN {<<>>}
            ELSE { front \o part : front \in choices[i - 1],
                                   part \in Orders(GlobMatches(disk, rootDir, exts[i])) }
    IN  choices[Len(exts)]

\* parseFile(filePath): the syntax tree, or null (parsed = FALSE).
ParseFile(disk, filePath) ==
    [parsed |-> disk[filePath].parses, ast |-> disk[filePath].ast]

-----------------------------------------------------------------------------
(* resolveImport and getCandidates.                                        *)

\* getCandidates trying the extensions in reverse order.
GetCandidatesReversed(base) ==
    <<base>>
    \o [i \in 1..Len(EXTENSIONS) |-> base \o EXTENSIONS[Len(EXTENSIONS) + 1 - i]]
    \o [i \in 1..Len(EXTENSIONS) |->
           PathJoin(base, <<"index">> \o EXTENSIONS[Len(EXTENSIONS) + 1 - i])]

GetCandidates(base) ==
    <<base>>
    \o [i \in 1..Len(EXTENSIONS) |-> base \o EXTENSIONS[i]]
    \o [i \in 1..Len(EXTENSIONS) |-> PathJoin(base, <<"index">> \o EXTENSIONS[i])]

\* resolveImport without its first line: every specifier is looked up.
ResolveImportAnySpecifier(disk, source, fromFile, rootDir) ==
    LET dir == PathDirname(fromFile)
        resolved == PathResolve(dir, source)
        cands == GetCandidates(resolved)
        hits == {i \in 1..Len(cands) : ExistsSync(disk, cands[i])}
    IN  IF hits = {} THEN Null
        ELSE PathRelative(rootDir,
                          cands[CHOOSE i \in hits : \A j \in hits : i <= j])

ResolveImport(disk, source, fromFile, rootDir) ==
    IF source = <<>> \/ (Head(source) \notin DotTokens /\ Head(source) # "/")
    THEN Null
    ELSE LET dir == PathDirname(fromFile)
             resolved == PathResolve(dir, source)
             cands == GetCandidates(resolved)
             hits == {i \in 1..Len(cands) : ExistsSync(disk, cands[i])}
         IN  IF hits = {} THEN Null
             ELSE PathRelative(rootDir,
                               cands[CHOOSE i \in hits : \A j \in hits : i <= j])

-----------------------------------------------------------------------------
(* The extractors of analyzeCodebase.                                      *)

\* The facts one visited node adds to the imports list.
ImportFactsOf(disk, n, filePath, rootDir) ==
    IF n.type = "ImportDeclaration"
    THEN LET resolved == ResolveImport(disk, n.value, filePath, rootDir)
             SpecOf(sp) ==
                 IF sp.type = "ImportDefaultSpecifier"
                 THEN [name |-> sp.local, type |-> "default"]
                 ELSE IF sp.type = "ImportNamespaceSpecifier"
                 THEN [name |-> sp.local, type |-> "namespace"]
                 ELSE [name |-> IF sp.imported # "" THEN sp.imported ELSE sp.local,
                       type |-> "named"]
         IN  IF resolved = Null THEN <<>>
             ELSE << [source |-> n.value, resolved |-> resolved,
                      specifiers |-> [i \in 1..Len(n.specifiers) |-> SpecOf(n.specifiers[i])]] >>
    ELSE IF n.type = "CallExpression"
    THEN LET literal == n.kids # <<>> /\ n.kids[1].type = "StringLiteral"
             resolved == ResolveImport(disk, n.kids[1].value, filePath, rootDir)
             Fact(t) == [source |-> n.kids[1].value, resolved |-> resolved,
                         specifiers |-> << [name |-> "default", type |-> t] >>]
         IN  (IF n.kind = "Identifier" /\ n.name = "require" /\ Len(n.kids) = 1
                 /\ literal /\ resolved # Null
              THEN <<Fact("require")>> ELSE <<>>)
             \o
             (IF n.kind = "Import" /\ Len(n.kids) >= 1 /\ literal /\ resolved # Null
              THEN <<Fact("dynamic")>> ELSE <<>>)
    ELSE <<>>

ExtractImports(disk, ast, filePath, rootDir) ==
    LET paths == Traverse(ast)
    IN  Flatten([i \in 1..Len(paths) |->
                    ImportFactsOf(disk, NodeOf(paths[i]), filePath, rootDir)])

\* The facts one visited node adds to the exports list.
ExportFactsOf(n) ==
    IF n.type = "ExportNamedDeclaration"
    THEN (IF n.kids = <<>> THEN <<>>
          ELSE LET decl == n.kids[1]
                   named == decl.name # ""
               IN  IF decl.type = "FunctionDeclaration" /\ named
                   THEN << [name |-> decl.name, type |-> "function"] >>
                   ELSE IF decl.type = "ClassDeclaration" /\ named
                   THEN << [name |-> decl.name, type |-> "class"] >>
                   ELSE IF decl.type = "VariableDeclaration"
                   THEN Flatten([i \in 1..Len(decl.kids) |->
                            IF decl.kids[i].name # ""
                            THEN << [name |-> decl.kids[i].name, type |-> "variable"] >>
                            ELSE <<>>])
                   ELSE IF decl.type = "TSTypeAliasDeclaration" /\ named
                   THEN << [name |-> decl.name, type |-> "type"] >>
                   ELSE IF decl.type = "TSInterfaceDeclaration" /\ named
                   THEN << [name |-> decl.name, type |-> "interface"] >>
                   ELSE IF decl.type = "TSEnumDeclaration" /\ named
                   THEN << [name |-> decl.name, type |-> "enum"] >>
                   ELSE <<>>)
         \o [i \in 1..Len(n.specifiers) |-> [name |-> n.specifiers[i], type |-> "re-export"]]
    ELSE IF n.type = "ExportDefaultDeclaration"
    THEN << [name |-> IF n.kids[1].name # "" THEN n.kids[1].name ELSE "default",
             type |-> "default"] >>
    ELSE IF n.type = "AssignmentExpression"
    THEN LET right == n.kids[1]
         IN  IF n.kind = "MemberExpression" /\ n.obj = "module" /\ n.name = "exports"
             THEN IF right.type = "Identifier"
                  THEN << [name |-> right.name, type |-> "cjs-default"] >>
                  ELSE IF right.type = "ObjectExpression"
                  THEN [i \in 1..Len(right.specifiers) |->
                           [name |-> right.specifiers[i], type |-> "cjs"]]
                  ELSE << [name |-> "default", type |-> "cjs-default"] >>
             ELSE IF n.kind = "MemberExpression" /\ n.obj = "exports" /\ n.name # ""
             THEN << [name |-> n.name, type |-> "cjs"] >>
             ELSE <<>>
    ELSE <<>>

ExtractExports(ast) ==
    LET paths == Traverse(ast)
    IN  Flatten([i \in 1..Len(paths) |-> ExportFactsOf(NodeOf(paths[i]))])

IsRequireInit(d) ==
    d.kids # <<>> /\ d.kids[1].type = "CallExpression"
    /\ d.kids[1].kind = "Identifier" /\ d.kids[1].name = "require"

\* The facts one visited node adds to the top-level declarations list.
GlobalFactsOf(path) ==
    LET n == NodeOf(path)
    IN  IF n.type = "FunctionDeclaration" /\ ParentType(path) = "Program"
        THEN << [name |-> n.name, type |-> "function"] >>
        ELSE IF n.type = "ClassDeclaration" /\ ParentType(path) = "Program" /\ n.name # ""
        THEN << [name |-> n.name, type |-> "class"] >>
        ELSE IF n.type = "VariableDeclaration" /\ ParentType(path) = "Program"
        THEN Flatten([i \in 1..Len(n.kids) |->
                 LET d == n.kids[i]
                 IN  IF d.name = "" \/ Len(d.name) < 3 \/ IsRequireInit(d)
                        \/ d.kind = "ObjectPattern"
                     THEN <<>>
                     ELSE << [name |-> d.name, type |-> "variable"] >>])
        ELSE <<>>

ExtractGlobalDeclarations(ast) ==
    LET paths == Traverse(ast)
    IN  Flatten([i \in 1..Len(paths) |-> GlobalFactsOf(paths[i])])

\* extractHtmlScriptRefs(filePath, rootDir)
ExtractHtmlScriptRefs(disk, filePath, rootDir) ==
    LET srcs == disk[filePath].scripts
        RefOf(src) ==
            LET resolved == PathResolve(PathDirname(filePath), src)
            IN  IF \/ StartsWith(src, <<"http:", "/", "/">>)
                   \/ StartsWith(src, <<"https:", "/", "/">>)
                   \/ StartsWith(src, <<"/", "/">>)
                THEN <<>>
                ELSE IF ExistsSync(disk, resolved)
                THEN <<PathRelative(rootDir, resolved)>>
                ELSE <<>>
    IN  Flatten([i \in 1..Len(srcs) |-> RefOf(srcs[i])])

-----------------------------------------------------------------------------
(* analyzeCodebase: the passes.                                            *)

\* The first pass's record of one file.  A record has one shape here: the
\* fields the code leaves undefined are empty, and hasScriptRefs tells
\* whether htmlScriptRefs is defined.
FirstPassData(disk, file, rootDir) ==
    LET fullPath == PathJoin(rootDir, file)
        ext == PathExtname(file)
        parse == ParseFile(disk, fullPath)
    IN  IF ext = <<".html">> \/ ext = <<".htm">>
        THEN [exports |-> <<>>, imports |-> <<>>, lines |-> disk[fullPath].lines,
              globals |-> <<>>, hasScriptRefs |-> TRUE,
              htmlScriptRefs |-> ExtractHtmlScriptRefs(disk, fullPath, rootDir)]
        ELSE IF ~parse.parsed
        THEN [exports |-> <<>>, imports |-> <<>>, lines |-> 0,
              globals |-> <<>>, hasScriptRefs |-> FALSE, htmlScriptRefs |-> <<>>]
        ELSE [exports |-> ExtractExports(parse.ast), imports |-> <<>>,
              lines |-> disk[fullPath].lines,
              globals |-> <<>>, hasScriptRefs |-> FALSE, htmlScriptRefs |-> <<>>]

\* The second pass's update of one file's record.
SecondPassData(disk, file, rootDir, data) ==
    LET fullPath == PathJoin(rootDir, file)
        ext == PathExtname(file)
        parse == ParseFile(disk, fullPath)
    IN  IF ext = <<".html">> \/ ext = <<".htm">> THEN data
        ELSE IF ~parse.parsed THEN data
        ELSE [data EXCEPT !.imports = ExtractImports(disk, parse.ast, fullPath, rootDir),
                          !.globals = ExtractGlobalDeclarations(parse.ast)]

\* A node whose exports list takes every top-level declaration.
NodeOfFileAllDeclarations(file, data) ==
    [id |-> file,
     exports |-> data.exports \o data.globals,
     lines |-> data.lines,
     folder |-> PathDirname(file),
     extension |-> PathExtname(file),
     incomingCount |-> 0]

\* One node of the file graph.
NodeOfFile(file, data) ==
    LET exportNames == {data.exports[i].name : i \in 1..Len(data.exports)}
    IN  [id |-> file,
         exports |-> data.exports
                     \o SelectSeq(data.globals, LAMBDA g : g.name \notin exportNames),
         lines |-> data.lines,
         folder |-> PathDirname(file),
         extension |-> PathExtname(file),
         incomingCount |-> 0]

\* [a, b].sort()
SortPair(a, b) == IF StrLess(b, a) THEN <<b, a>> ELSE <<a, b>>

\* EdgeKey without the sort: the key of the ordered pair.
EdgeKeyUnsorted(file, other) == file \o <<"|||">> \o other

\* [file, other].sort().join("|||")
EdgeKey(file, other) ==
    LET pair == SortPair(file, other) IN pair[1] \o <<"|||">> \o pair[2]

\* edgeMap[key], as the index of the record (0: undefined).
EdgeIndex(map, key) ==
    IF \E i \in 1..Len(map) : map[i].key = key
    THEN CHOOSE i \in 1..Len(map) : map[i].key = key
    ELSE 0

\* AddToEdge with the weight assigned where the code adds to it.
AddToEdgeAssigning(map, file, other, weight, references) ==
    LET key == EdgeKey(file, other)
        created == IF EdgeIndex(map, key) = 0
                   THEN Append(map, [key |-> key, source |-> file, target |-> other,
                                     weight |-> 0, references |-> <<>>])
                   ELSE map
        i == EdgeIndex(created, key)
    IN  [created EXCEPT ![i].weight = weight,
                        ![i].references = @ \o references]

\* AddToEdge counting only the contributions of the file that created the
\* record (the record's source).
AddToEdgeFromSourceOnly(map, file, other, weight, references) ==
    LET key == EdgeKey(file, other)
        created == IF EdgeIndex(map, key) = 0
                   THEN Append(map, [key |-> key, source |-> file, target |-> other,
                                     weight |-> 0, references |-> <<>>])
                   ELSE map
        i == EdgeIndex(created, key)
    IN  IF created[i].source = file
        THEN [created EXCEPT ![i].weight = @ + weight,
                             ![i].references = @ \o references]
        ELSE created

\* One contribution to the edge map: create the pair's record when there is
\* none, then add the weight and the reference names.
AddToEdge(map, file, other, weight, references) ==
    LET key == EdgeKey(file, other)
        created == IF EdgeIndex(map, key) = 0
                   THEN Append(map, [key |-> key, source |-> file, target |-> other,
                                     weight |-> 0, references |-> <<>>])
                   ELSE map
        i == EdgeIndex(created, key)
    IN  [created EXCEPT ![i].weight = @ + weight,
                        ![i].references = @ \o references]

\* The contributions of one file's imports, in order: those that resolve to
\* a file that has a record.
ImportContributions(file, fd) ==
    LET imps == SelectSeq(fd[file].imports,
                          LAMBDA imp : imp.resolved # Null /\ imp.resolved \in DOMAIN fd)
    IN  [i \in 1..Len(imps) |->
            [file |-> file, other |-> imps[i].resolved,
             weight |-> Len(imps[i].specifiers),
             references |-> [j \in 1..Len(imps[i].specifiers) |->
                                imps[i].specifiers[j].name]]]

\* The contributions of one HTML file's script references.
ScriptContributions(file, fd) ==
    IF ~fd[file].hasScriptRefs THEN <<>>
    ELSE LET refs == SelectSeq(fd[file].htmlScriptRefs, LAMBDA r : r \in DOMAIN fd)
         IN  [i \in 1..Len(refs) |->
                 [file |-> file, other |-> refs[i], weight |-> 1,
                  references |-> <<"script-src">>]]

RECURSIVE AddAll(_, _)
AddAll(map, contributions) ==
    IF contributions = <<>> THEN map
    ELSE AddAll(AddToEdge(map, Head(contributions).file, Head(contributions).other,
                          Head(contributions).weight, Head(contributions).references),
                Tail(contributions))

\* The loop "Build edges from explicit imports" over the files in `order`.
BuildImportEdges(map, order, fd) ==
    AddAll(map, Flatten([i \in 1..Len(order) |-> ImportContributions(order[i], fd)]))

\* The loop "Build edges from HTML <script src> references".
BuildScriptEdges(map, order, fd) ==
    AddAll(map, Flatten([i \in 1..Len(order) |-> ScriptContributions(order[i], fd)]))

\* Object.values(edgeMap)
EdgesOf(map) ==
    [i \in 1..Len(map) |-> [source |-> map[i].source, target |-> map[i].target,
                            weight |-> map[i].weight,
                            references |-> map[i].references]]

\* A count that adds the number of specifiers of each import fact and one
\* for each script reference.
IncomingCountByReference(order, fd, id) ==
    SumSeq([i \in 1..Len(order) |->
               SumSeq([k \in 1..Len(fd[order[i]].imports) |->
                          IF fd[order[i]].imports[k].resolved = id
                          THEN Len(fd[order[i]].imports[k].specifiers) ELSE 0])
               + Len(SelectSeq(fd[order[i]].htmlScriptRefs, LAMBDA ref : ref = id))])

\* incomingCounts[id] || 0
IncomingCount(order, fd, id) ==
    SumSeq([i \in 1..Len(order) |->
               Len(SelectSeq(fd[order[i]].imports,
                             LAMBDA imp : imp.resolved # Null /\ imp.resolved = id))])

\* [...new Set(values)].sort()
SortedDistinct(S) ==
    CHOOSE s \in Orders(S) : \A i, j \in 1..Len(s) : i < j => StrLess(s[i], s[j])

-----------------------------------------------------------------------------
(* extractSymbols: symbols and call facts of one file.  A symbol's line     *)
(* range, parameters, method list and superclass are left out: nothing in   *)
(* the graph builder reads them.                                            *)

\* A name as a string: an identifier is one token, a method's qualified
\* name is `${className}.${methodName}`.
NameOf(identifier) == <<identifier>>

MethodNameOf(className, key) == <<className, ".", key>>

\* `${relFile}::${name}`
SymbolId(relFile, name) == relFile \o <<"::">> \o name

Symbol(relFile, name, type, parent, exported) ==
    [id |-> SymbolId(relFile, name), name |-> name, type |-> type,
     file |-> relFile, parent |-> parent, exported |-> exported]

\* The number of characters of a text.
TextLen(text) == SumSeq([i \in 1..Len(text) |-> Len(text[i])])

\* text.slice(0, n), for a text that has a token boundary at n characters
\* or is shorter.
TakeChars(text, n) ==
    LET fits == {k \in 0..Len(text) : TextLen(SubSeq(text, 1, k)) <= n}
    IN  SubSeq(text, 1, CHOOSE k \in fits : \A j \in fits : j <= k)

\* conditionToString(node, sourceCode), on the source text of the node:
\* texts longer than 40 characters are cut to 37 and "...".
ConditionToString(text) ==
    IF TextLen(text) > 40 THEN TakeChars(text, 37) \o <<"...">> ELSE text

RECURSIVE EnclosingConditionsFrom(_, _)
\* The loop of getEnclosingConditions with scope at path[k].
EnclosingConditionsFrom(path, k) ==
    IF k < 1 THEN <<>>
    ELSE LET scope == path[k].node
             condText == ConditionToString(scope.value)
             callStart == StartOf(path)
             callEnd == EndOf(path)
             boundary == scope.type \in {"FunctionDeclaration", "ArrowFunctionExpression",
                                         "FunctionExpression", "ClassMethod"}
         IN  IF scope.type = "IfStatement" /\ condText # <<>>
             THEN << [condition |-> condText,
                      branch |-> IF /\ scope.hasAlt
                                    /\ callStart >= AltStart(scope, path[k].start)
                                    /\ callEnd <= AltEnd(scope, path[k].start)
                                 THEN "else" ELSE "if"] >>
             ELSE IF scope.type = "ConditionalExpression" /\ condText # <<>>
             THEN << [condition |-> condText,
                      branch |-> IF scope.hasAlt /\ callStart >= AltStart(scope, path[k].start)
                                 THEN ":" ELSE "?"] >>
             ELSE IF boundary THEN <<>>
             ELSE EnclosingConditionsFrom(path, k - 1)

RECURSIVE AllConditionsFrom(_, _)
\* A loop that does not return at the first condition: it collects every
\* condition up to the function boundary, innermost first.
AllConditionsFrom(path, k) ==
    IF k < 1 THEN <<>>
    ELSE LET scope == path[k].node
             isCondition == /\ scope.type \in {"IfStatement", "ConditionalExpression"}
                            /\ ConditionToString(scope.value) # <<>>
             boundary == scope.type \in {"FunctionDeclaration", "ArrowFunctionExpression",
                                         "FunctionExpression", "ClassMethod"}
         IN  IF isCondition
             THEN EnclosingConditionsFrom(path, k) \o AllConditionsFrom(path, k - 1)
             ELSE IF boundary THEN <<>>
             ELSE AllConditionsFrom(path, k - 1)

GetAllEnclosingConditions(path) == AllConditionsFrom(path, Len(path) - 1)

\* getEnclosingConditions(nodePath, sourceCode)
GetEnclosingConditions(path) == EnclosingConditionsFrom(path, Len(path) - 1)

\* The nearest ClassDeclaration at or above path[k]: its name, "" for none.
RECURSIVE ClassNameAbove(_, _)
ClassNameAbove(path, k) ==
    IF k < 1 THEN ""
    ELSE IF path[k].node.type = "ClassDeclaration" THEN path[k].node.name
    ELSE ClassNameAbove(path, k - 1)

RECURSIVE CallerFrom(_, _)
\* The loop "Find the enclosing function" with scope at path[k]: the
\* caller's name in a sequence, empty when the call is attributed to none.
CallerFrom(path, k) ==
    IF k < 1 THEN <<>>
    ELSE LET scope == path[k].node
             parent == IF k >= 2 THEN path[k - 1].node ELSE Nd
         IN  IF scope.type = "FunctionDeclaration" /\ scope.name # ""
             THEN <<NameOf(scope.name)>>
             ELSE IF /\ scope.type \in {"ArrowFunctionExpression", "FunctionExpression"}
                     /\ parent.type = "VariableDeclarator" /\ parent.name # ""
             THEN <<NameOf(parent.name)>>
             ELSE IF scope.type = "ClassMethod" /\ scope.name # ""
             THEN LET className == ClassNameAbove(path, k - 1)
                  IN  IF className # "" THEN <<MethodNameOf(className, scope.name)>>
                      ELSE <<>>
             ELSE CallerFrom(path, k - 1)

\* A visitor that attributes a call outside every named function to the
\* module, under the caller name "default".
CallFactsOfEveryCall(path) ==
    LET n == NodeOf(path)
        calledName == IF n.kind \in {"Identifier", "MemberExpression"} THEN n.name ELSE ""
        objectName == IF n.kind = "MemberExpression" THEN n.obj ELSE ""
        caller == CallerFrom(path, Len(path))
    IN  IF n.type # "CallExpression" \/ calledName = "" \/ calledName = "require"
        THEN <<>>
        ELSE << [caller |-> IF caller = <<>> THEN NameOf("default") ELSE caller[1],
                 callee |-> calledName, objectName |-> objectName,
                 conditions |-> GetEnclosingConditions(path)] >>

\* The call facts the CallExpression visitor adds at one node.
CallFactsOf(path) ==
    LET n == NodeOf(path)
        calledName == IF n.kind \in {"Identifier", "MemberExpression"} THEN n.name ELSE ""
        objectName == IF n.kind = "MemberExpression" THEN n.obj ELSE ""
        caller == CallerFrom(path, Len(path))
    IN  IF n.type # "CallExpression" \/ calledName = "" \/ calledName = "require"
        THEN <<>>
        ELSE IF caller = <<>> THEN <<>>
        ELSE << [caller |-> caller[1], callee |-> calledName, objectName |-> objectName,
                 conditions |-> GetEnclosingConditions(path)] >>

\* The symbols the declaration visitors add at one node.
SymbolFactsOf(path, relFile) ==
    LET n == NodeOf(path)
        parent == IF Len(path) >= 2 THEN path[Len(path) - 1].node ELSE Nd
        exportedHere == ParentType(path) \in {"ExportNamedDeclaration",
                                              "ExportDefaultDeclaration"}
    IN  IF n.type = "FunctionDeclaration"
        THEN IF n.name = "" THEN <<>>
             ELSE << Symbol(relFile, NameOf(n.name), "function", Null, exportedHere) >>
        ELSE IF n.type = "ArrowFunctionExpression"
        THEN IF parent.type # "VariableDeclarator" \/ parent.name = "" THEN <<>>
             ELSE << Symbol(relFile, NameOf(parent.name), "function", Null,
                            GrandParentType(path) = "ExportNamedDeclaration") >>
        ELSE IF n.type = "ClassDeclaration"
        THEN IF n.name = "" THEN <<>>
             ELSE LET members == SelectSeq(n.kids, LAMBDA m : m.type = "ClassMethod"
                                                              /\ m.name # "")
                  IN  [i \in 1..Len(members) |->
                          Symbol(relFile, MethodNameOf(n.name, members[i].name), "method",
                                 SymbolId(relFile, NameOf(n.name)), FALSE)]
                      \o << Symbol(relFile, NameOf(n.name), "class", Null, exportedHere) >>
        ELSE IF n.type = "VariableDeclaration"
        THEN IF ParentType(path) \notin {"Program", "ExportNamedDeclaration"} THEN <<>>
             ELSE LET kept == SelectSeq(n.kids, LAMBDA d :
                                  /\ d.name # ""
                                  /\ Len(d.name) >= 2
                                  /\ ~IsRequireInit(d)
                                  /\ ~(d.kids # <<>> /\ d.kids[1].type = "ArrowFunctionExpression")
                                  /\ ~(d.kids # <<>> /\ d.kids[1].type = "FunctionExpression"))
                  IN  [i \in 1..Len(kept) |->
                          Symbol(relFile, NameOf(kept[i].name), "variable", Null,
                                 ParentType(path) = "ExportNamedDeclaration")]
        ELSE IF n.type = "TSTypeAliasDeclaration"
        THEN IF n.name = "" THEN <<>>
             ELSE << Symbol(relFile, NameOf(n.name), "type", Null,
                            ParentType(path) = "ExportNamedDeclaration") >>
        ELSE IF n.type = "TSInterfaceDeclaration"
        THEN IF n.name = "" THEN <<>>
             ELSE << Symbol(relFile, NameOf(n.name), "interface", Null,
                            ParentType(path) = "ExportNamedDeclaration") >>
        ELSE <<>>

\* extractSymbols(ast, filePath, relFile, sourceCode)
ExtractSymbols(ast, relFile) ==
    LET paths == Traverse(ast)
    IN  [symbols |-> Flatten([i \in 1..Len(paths) |-> SymbolFactsOf(paths[i], relFile)]),
         calls |-> Flatten([i \in 1..Len(paths) |-> CallFactsOf(paths[i])])]

-----------------------------------------------------------------------------
(* analyzeCodebase: the steps.                                             *)

Scan ==
    /\ pc = "start"
    /\ uniqueFiles' \in ScanOrders(fs, RootDir, ALL_EXTENSIONS)
    /\ pc' = "pass1"
    /\ UNCHANGED <<fs, fileData, nodes, edgeMap, graph>>
    /\ UNCHANGED <<symVars, srvVars>>

FirstPass ==
    /\ pc = "pass1"
    /\ fileData' = [f \in Range(uniqueFiles) |-> FirstPassData(fs, f, RootDir)]
    /\ pc' = "pass2"
    /\ UNCHANGED <<fs, uniqueFiles, nodes, edgeMap, graph>>
    /\ UNCHANGED <<symVars, srvVars>>

SecondPass ==
    /\ pc = "pass2"
    /\ fileData' = [f \in Range(uniqueFiles) |->
                       SecondPassData(fs, f, RootDir, fileData[f])]
    /\ pc' = "nodes"
    /\ UNCHANGED <<fs, uniqueFiles, nodes, edgeMap, graph>>
    /\ UNCHANGED <<symVars, srvVars>>

BuildNodes ==
    /\ pc = "nodes"
    /\ nodes' = [i \in 1..Len(uniqueFiles) |->
                    NodeOfFile(uniqueFiles[i], fileData[uniqueFiles[i]])]
    /\ pc' = "imports"
    /\ UNCHANGED <<fs, uniqueFiles, fileData, edgeMap, graph>>
    /\ UNCHANGED <<symVars, srvVars>>

ImportEdges ==
    /\ pc = "imports"
    /\ edgeMap' = BuildImportEdges(edgeMap, uniqueFiles, fileData)
    /\ pc' = "scripts"
    /\ UNCHANGED <<fs, uniqueFiles, fileData, nodes, graph>>
    /\ UNCHANGED <<symVars, srvVars>>

ScriptEdges ==
    /\ pc = "scripts"
    /\ edgeMap' = BuildScriptEdges(edgeMap, uniqueFiles, fileData)
    /\ pc' = "counts"
    /\ UNCHANGED <<fs, uniqueFiles, fileData, nodes, graph>>
    /\ UNCHANGED <<symVars, srvVars>>

Return ==
    /\ pc = "counts"
    /\ LET counted == [i \in 1..Len(nodes) |->
                          [nodes[i] EXCEPT !.incomingCount =
                              IncomingCount(uniqueFiles, fileData, nodes[i].id)]]
       IN  /\ nodes' = counted
           /\ graph' = [nodes |-> counted,
                        edges |-> EdgesOf(edgeMap),
                        folders |-> SortedDistinct({counted[i].folder : i \in 1..Len(counted)}),
                        extensions |-> SortedDistinct({counted[i].extension : i \in 1..Len(counted)})]
    /\ pc' = "done"
    /\ UNCHANGED <<fs, uniqueFiles, fileData, edgeMap>>
    /\ UNCHANGED <<symVars, srvVars>>

NoGraph == [nodes |-> <<>>, edges |-> <<>>, folders |-> <<>>, extensions |-> <<>>]

-----------------------------------------------------------------------------
(* analyzeSymbols.  An edge holds its conditions array by reference: the    *)
(* field conditions is an array id of the heap, 0 for an edge without the   *)
(* field.                                                                   *)

\* The array ids given to the call facts of one extractSymbols run: every
\* call fact has its own conditions array; only the non-empty ones are ever
\* attached to an edge.
ArrayIds(calls, heapNow) ==
    [i \in 1..Len(calls) |->
        IF calls[i].conditions = <<>> THEN 0
        ELSE Len(heapNow) + Cardinality({j \in 1..i : calls[j].conditions # <<>>})]

\* The heap after that run.
HeapWith(calls, heapNow) ==
    LET filled == SelectSeq(calls, LAMBDA c : c.conditions # <<>>)
    IN  heapNow \o [i \in 1..Len(filled) |-> filled[i].conditions]

Edge(source, target, type, conditions) ==
    [source |-> source, target |-> target, type |-> type, conditions |-> conditions]

\* symbolNames.get(name): a Map built from the symbols keeps the last id
\* set for a name.
SymbolNamesGet(symbols, name) ==
    LET at == {i \in 1..Len(symbols) : symbols[i].name = name}
    IN  IF at = {} THEN Null ELSE symbols[CHOOSE i \in at : \A j \in at : j <= i].id

\* methodsByName.get(methodName) || []
MethodsByName(symbols, methodName) ==
    SelectSeq(symbols, LAMBDA sy : /\ sy.type = "method"
                                   /\ "." \in Range(sy.name)
                                   /\ <<Last(sy.name)>> = NameOf(methodName))

\* A first pass that always takes the first candidate method.
IntraFileEdgeFirstCandidate(symbols, call, arrayId) ==
    LET callerId == SymbolNamesGet(symbols, call.caller)
        direct == SymbolNamesGet(symbols, NameOf(call.callee))
        candidates == MethodsByName(symbols, call.callee)
        calleeId == IF direct # Null \/ call.objectName = "" THEN direct
                    ELSE IF Len(candidates) = 0 THEN Null
                    ELSE candidates[1].id
    IN  IF callerId # Null /\ calleeId # Null /\ callerId # calleeId
        THEN << Edge(callerId, calleeId, "calls", arrayId) >>
        ELSE <<>>

\* The edge one call fact adds in the first pass ("Build intra-file call
\* edges"), in a sequence.
IntraFileEdge(symbols, call, arrayId) ==
    LET callerId == SymbolNamesGet(symbols, call.caller)
        direct == SymbolNamesGet(symbols, NameOf(call.callee))
        candidates == MethodsByName(symbols, call.callee)
        exact == SelectSeq(candidates, LAMBDA c :
                     c.name = MethodNameOf(call.objectName, call.callee))
        calleeId == IF direct # Null \/ call.objectName = "" THEN direct
                    ELSE IF Len(candidates) = 0 THEN Null
                    ELSE IF Len(candidates) = 1 THEN candidates[1].id
                    ELSE IF exact # <<>> THEN exact[1].id
                    ELSE candidates[1].id
    IN  IF callerId # Null /\ calleeId # Null /\ callerId # calleeId
        THEN << Edge(callerId, calleeId, "calls", arrayId) >>
        ELSE <<>>

\* fileImports[file] as the first pass fills it.
ImportBindings(imports) ==
    Flatten([i \in 1..Len(imports) |->
        [k \in 1..Len(imports[i].specifiers) |->
            [localName |-> imports[i].specifiers[k].name,
             importedName |-> IF imports[i].specifiers[k].type = "default"
                              THEN "default" ELSE imports[i].specifiers[k].name,
             fromFile |-> imports[i].resolved]]])

\* An object used as a table, as a sequence of [key, value] in the order
\* the keys were first set.
TableGet(table, key) ==
    LET at == {i \in 1..Len(table) : table[i].key = key}
    IN  IF at = {} THEN Null ELSE table[CHOOSE i \in at : TRUE].value

TableSet(table, key, value) ==
    IF \E i \in 1..Len(table) : table[i].key = key
    THEN [i \in 1..Len(table) |->
             IF table[i].key = key THEN [key |-> key, value |-> value] ELSE table[i]]
    ELSE Append(table, [key |-> key, value |-> value])

RECURSIVE SymbolByFileFrom(_, _, _)
\* "Build a lookup: file -> symbolName -> symbolId", from symbol k on.
SymbolByFileFrom(symbols, k, table) ==
    IF k > Len(symbols) THEN table
    ELSE LET sym == symbols[k]
             inner == TableGet(table, sym.file)
         IN  SymbolByFileFrom(symbols, k + 1,
                 TableSet(table, sym.file, TableSet(inner, sym.name, sym.id)))

\* The edges the second pass adds for the import bindings of a file.
ImportLinkEdges(table, file, imports) ==
    Flatten([i \in 1..Len(imports) |->
        LET targetLookup == TableGet(table, imports[i].fromFile)
            byImported == TableGet(targetLookup, NameOf(imports[i].importedName))
            targetId == IF byImported # Null THEN byImported
                        ELSE TableGet(targetLookup, NameOf(imports[i].localName))
        IN  IF targetLookup = Null \/ targetId = Null THEN <<>>
            ELSE << Edge(SymbolId(file, NameOf(imports[i].localName)), targetId,
                         "imports", 0) >>])

\* localImportMap[name]: the last binding with that local name, in a
\* sequence.
LocalImport(imports, name) ==
    LET at == {i \in 1..Len(imports) : imports[i].localName = name}
    IN  IF at = {} THEN <<>> ELSE << imports[CHOOSE i \in at : \A j \in at : j <= i] >>

\* The first of the ids that is set.
FirstSet(ids) ==
    LET set == SelectSeq(ids, LAMBDA id : id # Null)
    IN  IF set = <<>> THEN Null ELSE set[1]

\* The edges one call fact adds in the second pass.
CrossFileEdges(table, file, imports, call, arrayId) ==
    LET callerId == TableGet(TableGet(table, file), call.caller)
        byCallee == LocalImport(imports, call.callee)
        byObject == IF call.objectName = "" THEN <<>>
                    ELSE LocalImport(imports, call.objectName)
    IN  IF callerId = Null THEN <<>>
        ELSE IF byCallee # <<>>
        THEN LET imp == byCallee[1]
                 targetLookup == TableGet(table, imp.fromFile)
                 targetId == FirstSet(<< TableGet(targetLookup, NameOf(imp.importedName)),
                                         TableGet(targetLookup, NameOf(imp.localName)) >>)
             IN  IF targetLookup = Null \/ targetId = Null THEN <<>>
                 ELSE << Edge(callerId, targetId, "calls", arrayId) >>
        ELSE IF byObject # <<>>
        THEN LET imp == byObject[1]
                 targetLookup == TableGet(table, imp.fromFile)
                 targetId == FirstSet(<<
                     TableGet(targetLookup, MethodNameOf(imp.importedName, call.callee)),
                     TableGet(targetLookup, MethodNameOf(imp.localName, call.callee)),
                     TableGet(targetLookup, NameOf(call.callee)) >>)
             IN  IF targetLookup = Null \/ targetId = Null THEN <<>>
                 ELSE << Edge(callerId, targetId, "calls", arrayId) >>
        ELSE IF call.objectName # ""
        THEN Flatten([f \in 1..Len(table) |->
                 LET targetLookup == table[f].value
                     matching == SelectSeq(targetLookup, LAMBDA e :
                                     /\ EndsWith(e.key, <<".", call.callee>>)
                                     /\ e.value # callerId)
                 IN  [k \in 1..Len(matching) |->
                         Edge(callerId, matching[k].value, "calls", arrayId)]])
        ELSE <<>>

\* A key that also tells apart the conditions arrays.
DedupeKeyWithConditions(edge) ==
    <<edge.source, "|", edge.target, "|", edge.type, "|", edge.conditions>>

\* `${edge.source}|${edge.target}|${edge.type}`
DedupeKey(edge) == edge.source \o <<"|">> \o edge.target \o <<"|">> \o <<edge.type>>

RECURSIVE PushMissing(_, _)
\* The conditions of `from` not yet in `into` are pushed to `into`.
PushMissing(into, from) ==
    IF from = <<>> THEN into
    ELSE PushMissing(IF Head(from) \in Range(into) THEN into ELSE Append(into, Head(from)),
                     Tail(from))

RECURSIVE DedupeFrom(_, _, _)
\* "Deduplicate edges", from edge k on; st holds the map (as the sequence of
\* its values) and the heap.  `{ ...edge }` copies the reference to the
\* conditions array, not the array.
DedupeFrom(edges, k, st) ==
    IF k > Len(edges) THEN st
    ELSE LET edge == edges[k]
             at == {i \in 1..Len(st.map) : DedupeKey(st.map[i]) = DedupeKey(edge)}
         IN  IF at = {}
             THEN DedupeFrom(edges, k + 1, [st EXCEPT !.map = Append(@, edge)])
             ELSE IF edge.conditions = 0
             THEN DedupeFrom(edges, k + 1, st)
             ELSE LET i == CHOOSE j \in at : TRUE
                      fresh == st.map[i].conditions = 0
                      heap1 == IF fresh THEN Append(st.heap, <<>>) ELSE st.heap
                      target == IF fresh THEN Len(heap1) ELSE st.map[i].conditions
                  IN  DedupeFrom(edges, k + 1,
                          [map |-> [st.map EXCEPT ![i].conditions = target],
                           heap |-> [heap1 EXCEPT ![target] =
                                        PushMissing(@, heap1[edge.conditions])]])

\* The conditions an edge record holds now (undefined read as the empty list).
ConditionsOf(heapNow, edge) ==
    IF edge.conditions = 0 THEN <<>> ELSE heapNow[edge.conditions]

NoResult == [symbols |-> <<>>, edges |-> <<>>, files |-> <<>>]

\* A filter that looks at the target of an edge only.
ValidEdgesByTarget(deduped, symbols) ==
    LET symbolIds == {symbols[i].id : i \in 1..Len(symbols)}
    IN  SelectSeq(deduped, LAMBDA e : e.target \in symbolIds)

\* A return without the filter.
ValidEdgesUnfiltered(deduped, symbols) == deduped

\* "Only include symbols that actually exist": the edges kept.
ValidEdges(deduped, symbols) ==
    LET symbolIds == {symbols[i].id : i \in 1..Len(symbols)}
    IN  SelectSeq(deduped, LAMBDA e : e.source \in symbolIds /\ e.target \in symbolIds)

-----------------------------------------------------------------------------
(* analyzeSymbols: the steps.                                               *)

SymScan ==
    /\ pc = "sym_start"
    /\ uniqueFiles' \in ScanOrders(fs, RootDir, EXTENSIONS)
    /\ idx' = 1
    /\ pc' = "sym_pass1"
    /\ UNCHANGED <<fs, fileCalls, fileVars, srvVars, allSymbols, allEdges, fileImports, symbolByFile, heap,
                   edgeMap2, emitted, result>>

\* A loop that stops at the first file that does not parse.
AfterFileBreaking(parsed, i, n) == IF parsed THEN i + 1 ELSE n + 1

\* `if (!ast) continue;`: the index of the next turn of a loop over n files
\* after the turn for file i, whether file i parsed or not.
AfterFile(parsed, i, n) == i + 1

\* What one turn of the first loop over the files computes for `file`.
FirstPassFile(disk, file, heapNow) ==
    LET fullPath == PathJoin(RootDir, file)
        parsed == ParseFile(disk, fullPath)
        ex == ExtractSymbols(parsed.ast, file)
        ids == ArrayIds(ex.calls, heapNow)
        edges == Flatten([i \in 1..Len(ex.calls) |->
                             IntraFileEdge(ex.symbols, ex.calls[i], ids[i])])
        heap1 == HeapWith(ex.calls, heapNow)
    IN  [parsed |-> parsed.parsed,
         symbols |-> ex.symbols,
         calls |-> ex.calls,
         edges |-> edges,
         emitted |-> [i \in 1..Len(edges) |-> ConditionsOf(heap1, edges[i])],
         heap |-> heap1,
         imports |-> ImportBindings(ExtractImports(disk, parsed.ast, fullPath, RootDir))]

\* One turn of the first loop over the files.
SymFirstPassFile ==
    /\ pc = "sym_pass1"
    /\ idx <= Len(uniqueFiles)
    /\ \E r \in {FirstPassFile(fs, uniqueFiles[idx], heap)} :
          /\ IF ~r.parsed
             THEN /\ fileCalls' = <<>>
                  /\ UNCHANGED <<allSymbols, allEdges, fileImports, heap, emitted>>
             ELSE /\ fileCalls' = r.calls
                  /\ allSymbols' = allSymbols \o r.symbols
                  /\ allEdges' = allEdges \o r.edges
                  /\ emitted' = emitted \o r.emitted
                  /\ heap' = r.heap
                  /\ fileImports' = TableSet(fileImports, uniqueFiles[idx], r.imports)
          /\ idx' = AfterFile(r.parsed, idx, Len(uniqueFiles))
    /\ UNCHANGED <<fs, pc, uniqueFiles, fileVars, srvVars, symbolByFile, edgeMap2, result>>

\* After the first loop: the lookup is built.
SymBuildLookup ==
    /\ pc = "sym_pass1"
    /\ idx > Len(uniqueFiles)
    /\ symbolByFile' = SymbolByFileFrom(allSymbols, 1, <<>>)
    /\ idx' = 1
    /\ pc' = "sym_pass2"
    /\ UNCHANGED <<fs, fileCalls, uniqueFiles, fileVars, srvVars, allSymbols, allEdges, fileImports, heap,
                   edgeMap2, emitted, result>>

\* What one turn of the second loop over the files computes for `file`.
SecondPassFile(disk, table, bindings, file, heapNow) ==
    LET imports == TableGet(bindings, file)
        links == ImportLinkEdges(table, file, imports)
        parsed == ParseFile(disk, PathJoin(RootDir, file))
        calls == ExtractSymbols(parsed.ast, file).calls
        ids == ArrayIds(calls, heapNow)
        heap1 == IF parsed.parsed THEN HeapWith(calls, heapNow) ELSE heapNow
        edges == IF ~parsed.parsed THEN links
                 ELSE links \o Flatten([i \in 1..Len(calls) |->
                          CrossFileEdges(table, file, imports, calls[i], ids[i])])
    IN  [parsed |-> parsed.parsed,
         calls |-> IF parsed.parsed THEN calls ELSE <<>>,
         edges |-> edges,
         emitted |-> [i \in 1..Len(edges) |-> ConditionsOf(heap1, edges[i])],
         heap |-> heap1]

\* One turn of the second loop over the files.
SymSecondPassFile ==
    /\ pc = "sym_pass2"
    /\ idx <= Len(uniqueFiles)
    /\ \E r \in {SecondPassFile(fs, symbolByFile, fileImports, uniqueFiles[idx], heap)} :
          /\ fileCalls' = r.calls
          /\ allEdges' = allEdges \o r.edges
          /\ emitted' = emitted \o r.emitted
          /\ heap' = r.heap
          /\ idx' = AfterFile(r.parsed, idx, Len(uniqueFiles))
    /\ UNCHANGED <<fs, pc, uniqueFiles, fileVars, srvVars, allSymbols, fileImports, symbolByFile,
                   edgeMap2, result>>

\* After the second loop: the edges are deduplicated.
SymDedupe ==
    /\ pc = "sym_pass2"
    /\ idx > Len(uniqueFiles)
    /\ \E st \in {DedupeFrom(allEdges, 1, [map |-> <<>>, heap |-> heap])} :
          /\ edgeMap2' = st.map
          /\ heap' = st.heap
    /\ pc' = "sym_filter"
    /\ UNCHANGED <<fs, fileCalls, uniqueFiles, fileVars, srvVars, idx, allSymbols, allEdges, fileImports,
                   symbolByFile, emitted, result>>

\* The returned value; a returned edge is written with the content of its
\* conditions array.
Returned(symbols, validEdges, heapNow, files) ==
    [symbols |-> symbols,
     edges |-> [i \in 1..Len(validEdges) |->
                   [source |-> validEdges[i].source,
                    target |-> validEdges[i].target,
                    type |-> validEdges[i].type,
                    conditions |-> ConditionsOf(heapNow, validEdges[i])]],
     files |-> files]

\* The validity filter and the return.
SymReturn ==
    /\ pc = "sym_filter"
    /\ result' = Returned(allSymbols, ValidEdges(edgeMap2, allSymbols), heap, uniqueFiles)
    /\ pc' = "sym_done"
    /\ UNCHANGED <<fs, fileCalls, uniqueFiles, fileVars, srvVars, idx, allSymbols, allEdges, fileImports,
                   symbolByFile, heap, edgeMap2, emitted>>

-----------------------------------------------------------------------------
(* The inputs of the file-graph specification: a root directory with the    *)
(* source files a.js and b.js, a directory lib, and perhaps the page        *)
(* p.html.                                                                  *)

FileA == <<"a", ".js">>
FileB == <<"b", ".js">>
PageP == <<"p", ".html">>
DirLib == <<"lib">>

\* The import statements the source files are written from:
\*   import "./a.js";  import { x } from "./a.js";
\*   import "./b";     import { x } from "./b";
\*   require("./b");   import("./lib");   import { x } from "lodash";
\*   import { x } from "./p.html";
ImportStatements ==
    { ImportDeclaration(src, sp) :
        src \in { <<".", "/", "a", ".js">>, <<".", "/", "b">> },
        sp \in { <<>>, <<ImportSpecifier("x", "x")>> } }
    \cup { Call("require", <<StringLiteral(<<".", "/", "b">>)>>),
           ImportCall(<<StringLiteral(<<".", "/", "lib">>)>>),
           ImportDeclaration(<<"lodash">>, <<ImportSpecifier("x", "x")>>),
           ImportDeclaration(<<".", "/", "p", ".html">>, <<ImportSpecifier("x", "x")>>) }

\* A source text of one statement per line, ended by a line break.
SourceOf(body) == SourceFile(Len(body) + 1, Program(body))

\* The line counts of the texts that do not parse.
BrokenLineCounts == {1, 2}

\* The contents of a.js: up to MaxImports import statements, or a text with
\* a syntax error.
ContentsA ==
    { SourceOf(body) : body \in SeqUpTo(ImportStatements, MaxImports) }
    \cup { BrokenFile(n) : n \in BrokenLineCounts }

\* The contents of b.js: at most one import statement, or a syntax error.
ContentsB ==
    { SourceOf(<<>>) } \cup { SourceOf(<<st>>) : st \in ImportStatements }
    \cup { BrokenFile(n) : n \in BrokenLineCounts }

\* The <script src> lists of p.html: none, "a.js", "a.js" twice, "a.js" and
\* "./b.js", an external URL and the directory "lib", the page itself.
ScriptLists ==
    { <<>>,
      << <<"a", ".js">> >>,
      << <<"a", ".js">>, <<"a", ".js">> >>,
      << <<"a", ".js">>, <<".", "/", "b", ".js">> >>,
      << <<"https:", "/", "/", "x", ".js">>, <<"lib">> >>,
      << <<"p", ".html">> >> }

FileGraphDisks ==
    { (RootDir :> DirEntry) @@ (PathJoin(RootDir, DirLib) :> DirEntry)
      @@ (PathJoin(RootDir, FileA) :> a) @@ (PathJoin(RootDir, FileB) :> b)
      @@ page :
        a \in ContentsA, b \in ContentsB,
        page \in { <<>> } \cup { (PathJoin(RootDir, PageP) :> HtmlFile(Len(sc) + 1, sc)) :
                                   sc \in ScriptLists } }

Init ==
    /\ fs \in FileGraphDisks
    /\ pc = "start"
    /\ uniqueFiles = <<>>
    /\ fileData = <<>>
    /\ nodes = <<>>
    /\ edgeMap = <<>>
    /\ graph = NoGraph
    /\ idx = 1
    /\ allSymbols = <<>>
    /\ allEdges = <<>>
    /\ fileImports = <<>>
    /\ symbolByFile = <<>>
    /\ heap = <<>>
    /\ edgeMap2 = <<>>
    /\ emitted = <<>>
    /\ fileCalls = <<>>
    /\ result = NoResult
    /\ cachedGraph = <<>>
    /\ cachedTarget = <<>>
    /\ cachedSymbols = <<>>
    /\ requests = <<>>

Next ==
    \/ Scan
    \/ FirstPass
    \/ SecondPass
    \/ BuildNodes
    \/ ImportEdges
    \/ ScriptEdges
    \/ Return

Spec == Init /\ [][Next]_vars

-----------------------------------------------------------------------------
(* The inputs of the symbol-graph specification: a root directory with the  *)
(* source files a.js and b.js.  a.js is written from an import statement,   *)
(* declarations of its own and a function g that makes the calls; b.js      *)
(* declares what a.js imports and calls.                                    *)

EmptyMethod(key, kind) == ClassMethod(key, kind, <<>>)

\* if (X) { o.m() }, o.m(), if (Y) { C.m() }, f()
CallStatements ==
    { IfStatement(<<"X">>, <<Identifier("X")>>, <<MemberCall("o", "m", <<>>)>>, FALSE, <<>>),
      MemberCall("o", "m", <<>>),
      IfStatement(<<"Y">>, <<Identifier("Y")>>, <<MemberCall("C", "m", <<>>)>>, FALSE, <<>>),
      Call("f", <<>>) }

\* The import statement of a.js: none, import C from "./b.js", or
\* import { f } from "./b.js".
SymbolImportsA ==
    { <<>>,
      << ImportDeclaration(<<".", "/", "b", ".js">>, <<ImportDefaultSpecifier("C")>>) >>,
      << ImportDeclaration(<<".", "/", "b", ".js">>, <<ImportSpecifier("f", "f")>>) >> }

\* The declarations of a.js next to g: none, function f(){}, or
\* class D { m(){} }.
SymbolDeclarationsA ==
    { <<>>,
      << FunctionDeclaration("f", <<>>) >>,
      << ClassDeclaration("D", "", <<EmptyMethod("m", "method")>>) >> }

SymbolContentsA ==
    { SourceOf(im \o decls \o << FunctionDeclaration("g", body) >>) :
        im \in SymbolImportsA, decls \in SymbolDeclarationsA,
        body \in SeqUpTo(CallStatements, MaxCalls) }
    \cup { BrokenFile(1) }

\* The contents of b.js: nothing; export function f(){}; function f twice;
\* classes C and D with a method m each; a class C with a getter and a
\* setter m; export default class C whose method m calls f, and f; a text
\* with a syntax error.
SymbolContentsB ==
    { SourceOf(<<>>),
      SourceOf(<< ExportNamedDeclaration(<<FunctionDeclaration("f", <<>>)>>, <<>>) >>),
      SourceOf(<< FunctionDeclaration("f", <<>>), FunctionDeclaration("f", <<>>) >>),
      SourceOf(<< ClassDeclaration("C", "", <<EmptyMethod("m", "method")>>),
                  ClassDeclaration("D", "", <<EmptyMethod("m", "method")>>) >>),
      SourceOf(<< ClassDeclaration("C", "", <<EmptyMethod("m", "get"),
                                              EmptyMethod("m", "set")>>) >>),
      SourceOf(<< ExportDefaultDeclaration(
                      ClassDeclaration("C", "", <<ClassMethod("m", "method",
                                                      <<Call("f", <<>>)>>)>>)),
                  FunctionDeclaration("f", <<>>) >>),
      BrokenFile(2) }

SymbolGraphDisks ==
    { (RootDir :> DirEntry)
      @@ (PathJoin(RootDir, FileA) :> a) @@ (PathJoin(RootDir, FileB) :> b) :
        a \in SymbolContentsA, b \in SymbolContentsB }

InitSym ==
    /\ fs \in SymbolGraphDisks
    /\ pc = "sym_start"
    /\ uniqueFiles = <<>>
    /\ fileData = <<>>
    /\ nodes = <<>>
    /\ edgeMap = <<>>
    /\ graph = NoGraph
    /\ idx = 1
    /\ allSymbols = <<>>
    /\ allEdges = <<>>
    /\ fileImports = <<>>
    /\ symbolByFile = <<>>
    /\ heap = <<>>
    /\ edgeMap2 = <<>>
    /\ emitted = <<>>
    /\ fileCalls = <<>>
    /\ result = NoResult
    /\ cachedGraph = <<>>
    /\ cachedTarget = <<>>
    /\ cachedSymbols = <<>>
    /\ requests = <<>>

NextSym ==
    \/ SymScan
    \/ SymFirstPassFile
    \/ SymBuildLookup
    \/ SymSecondPassFile
    \/ SymDedupe
    \/ SymReturn

SpecSym == InitSym /\ [][NextSym]_vars

-----------------------------------------------------------------------------
(* The server.  A request is a record with its kind, the position of its     *)
(* handler (codebase: at `await analyzeCodebase`; symbols: at `await         *)
(* analyzeSymbols`; lazy: at the await of GET /api/symbols; done), the root  *)
(* it works on, the requested path, and its response.  What an analysis      *)
(* returns is written by what it is the analysis of: the root, and the run   *)
(* (the request whose analysis it belongs to).                               *)

\* process.cwd()
Cwd == RootDir

\* A directory next to the root whose name begins with the root's name.
SiblingDir == <<"/", "r", "2">>

GraphOf(root, run) == <<"graph", root, run>>

SymbolsOf(root, run) == <<"symbols", root, run>>

RootOf(value) == value[2]

RunOf(value) == value[3]

ErrorBody == <<"error">>

Request(kind, at, root, run, path, status, body) ==
    [kind |-> kind, pc |-> at, root |-> root, run |-> run, path |-> path,
     status |-> status, body |-> body]

\* The request i with its response sent.
Respond(i, status, body) ==
    [requests EXCEPT ![i].pc = "done", ![i].status = status, ![i].body = body]

\* An unhandled rejection has ended the process.
Crashed == \E i \in 1..Len(requests) : requests[i].pc = "crashed"

CanReceive == ~Crashed /\ Len(requests) < MaxRequests

\* POST /api/analyze, to the await of analyzeCodebase.
PostAnalyze(bodyPath) ==
    /\ CanReceive
    /\ LET targetDir == IF bodyPath # Null THEN bodyPath ELSE Cwd
           resolved == PathResolve(Cwd, targetDir)
       IN  requests' = Append(requests,
               Request("analyze", "codebase", resolved, Len(requests) + 1, Null, 0, Null))
    /\ UNCHANGED <<fs, analysisVars, cachedGraph, cachedTarget, cachedSymbols>>

\* analyzeCodebase resolves: the continuation of POST /api/analyze or of the
\* auto-analysis, to the await of analyzeSymbols.
CodebaseReturns(i) ==
    /\ ~Crashed
    /\ requests[i].pc = "codebase"
    /\ cachedGraph' = GraphOf(requests[i].root, requests[i].run)
    /\ cachedTarget' = requests[i].root
    /\ requests' = [requests EXCEPT ![i].pc = "symbols"]
    /\ UNCHANGED <<fs, analysisVars, cachedSymbols>>

\* analyzeCodebase rejects: POST /api/analyze answers 500; the promise of
\* the auto-analysis has no rejection handler.
CodebaseThrows(i) ==
    /\ ~Crashed
    /\ requests[i].pc = "codebase"
    /\ requests' = IF requests[i].kind = "analyze" THEN Respond(i, 500, ErrorBody)
                   ELSE [requests EXCEPT ![i].pc = "crashed"]
    /\ UNCHANGED <<fs, analysisVars, cachedGraph, cachedTarget, cachedSymbols>>

\* analyzeSymbols resolves in POST /api/analyze or in the auto-analysis.
SymbolsReturns(i) ==
    /\ ~Crashed
    /\ requests[i].pc = "symbols"
    /\ cachedSymbols' = SymbolsOf(requests[i].root, requests[i].run)
    /\ requests' = IF requests[i].kind = "analyze"
                   THEN Respond(i, 200, GraphOf(requests[i].root, requests[i].run))
                   ELSE [requests EXCEPT ![i].pc = "done"]
    /\ UNCHANGED <<fs, analysisVars, cachedGraph, cachedTarget>>

\* analyzeSymbols rejects in POST /api/analyze or in the auto-analysis.
SymbolsThrows(i) ==
    /\ ~Crashed
    /\ requests[i].pc = "symbols"
    /\ requests' = IF requests[i].kind = "analyze" THEN Respond(i, 500, ErrorBody)
                   ELSE [requests EXCEPT ![i].pc = "done"]
    /\ UNCHANGED <<fs, analysisVars, cachedGraph, cachedTarget, cachedSymbols>>

\* GET /api/graph
GetGraph ==
    /\ CanReceive
    /\ requests' = Append(requests,
           IF cachedGraph # Null
           THEN Request("graph", "done", Null, 0, Null, 200, cachedGraph)
           ELSE Request("graph", "done", Null, 0, Null, 404, ErrorBody))
    /\ UNCHANGED <<fs, analysisVars, cachedGraph, cachedTarget, cachedSymbols>>

\* GET /api/symbols, to its response or to the await of analyzeSymbols.
GetSymbols ==
    /\ CanReceive
    /\ requests' = Append(requests,
           IF cachedSymbols # Null /\ cachedTarget # Null
           THEN Request("symbols", "done", Null, 0, Null, 200, cachedSymbols)
           ELSE IF cachedTarget = Null
           THEN Request("symbols", "done", Null, 0, Null, 404, ErrorBody)
           ELSE Request("symbols", "lazy", cachedTarget, RunOf(cachedGraph), Null, 0, Null))
    /\ UNCHANGED <<fs, analysisVars, cachedGraph, cachedTarget, cachedSymbols>>

\* analyzeSymbols resolves in GET /api/symbols.
LazySymbolsReturns(i) ==
    /\ ~Crashed
    /\ requests[i].pc = "lazy"
    /\ cachedSymbols' = SymbolsOf(requests[i].root, requests[i].run)
    /\ requests' = Respond(i, 200, SymbolsOf(requests[i].root, requests[i].run))
    /\ UNCHANGED <<fs, analysisVars, cachedGraph, cachedTarget>>

\* analyzeSymbols rejects in GET /api/symbols.
LazySymbolsThrows(i) ==
    /\ ~Crashed
    /\ requests[i].pc = "lazy"
    /\ requests' = Respond(i, 500, ErrorBody)
    /\ UNCHANGED <<fs, analysisVars, cachedGraph, cachedTarget, cachedSymbols>>

\* fs.readFileSync(fullPath, "utf-8") returns: the path is a file.
Readable(disk, fullPath) == ExistsSync(disk, fullPath) /\ disk[fullPath].kind = "file"

\* The response of GET /api/file?path=relPath: its status and body.  The
\* content of a file is written as its entry on the disk.
FileResponse(disk, target, relPath) ==
    LET fullPath == PathResolve(target, relPath)
    IN  IF target = Null THEN <<404, ErrorBody>>
        ELSE IF relPath = Null THEN <<400, ErrorBody>>
        ELSE IF ~StartsWith(fullPath, PathResolve(Cwd, target)) THEN <<403, ErrorBody>>
        ELSE IF Readable(disk, fullPath) THEN <<200, <<"file", relPath, disk[fullPath]>>>>
        ELSE <<404, ErrorBody>>

\* GET /api/file
GetFile(relPath) ==
    /\ CanReceive
    /\ \E r \in {FileResponse(fs, cachedTarget, relPath)} :
          requests' = Append(requests,
              Request("file", "done", cachedTarget, 0, relPath, r[1], r[2]))
    /\ UNCHANGED <<fs, analysisVars, cachedGraph, cachedTarget, cachedSymbols>>

-----------------------------------------------------------------------------
(* The inputs of the server specification: a disk with the root /r, which   *)
(* holds a.js, and the directory /r2 next to it, which holds s.js; the      *)
(* server is started in /r, with or without a directory on the command      *)
(* line.                                                                    *)

FileS == <<"s", ".js">>

ServerDisk ==
    (RootDir :> DirEntry) @@ (PathJoin(RootDir, FileA) :> SourceOf(<<>>))
    @@ (SiblingDir :> DirEntry)
    @@ (PathJoin(SiblingDir, FileS) :> SourceOf(<< FunctionDeclaration("f", <<>>) >>))

\* req.body.path: absent, or /r2.
BodyPaths == { Null, SiblingDir }

\* req.query.path: absent, a.js, lib (not there), ../r2/s.js, /r2/s.js,
\* ../x.js, and . (the root itself).
QueryPaths ==
    { Null,
      FileA,
      DirLib,
      <<"..", "/", "r", "2", "/", "s", ".js">>,
      <<"/", "r", "2", "/", "s", ".js">>,
      <<"..", "/", "x", ".js">>,
      <<".">> }

\* process.argv[2]: absent, or /r2.
TargetArgs == { Null, SiblingDir }

InitServer ==
    /\ fs = ServerDisk
    /\ pc = "serving"
    /\ uniqueFiles = <<>>
    /\ fileData = <<>>
    /\ nodes = <<>>
    /\ edgeMap = <<>>
    /\ graph = NoGraph
    /\ idx = 1
    /\ allSymbols = <<>>
    /\ allEdges = <<>>
    /\ fileImports = <<>>
    /\ symbolByFile = <<>>
    /\ heap = <<>>
    /\ edgeMap2 = <<>>
    /\ emitted = <<>>
    /\ fileCalls = <<>>
    /\ result = NoResult
    /\ cachedGraph = Null
    /\ cachedTarget = Null
    /\ cachedSymbols = Null
    /\ \E targetArg \in TargetArgs :
          requests = IF targetArg = Null THEN <<>>
                     ELSE << Request("cli", "codebase", PathResolve(Cwd, targetArg), 1,
                                     Null, 0, Null) >>

NextServer ==
    \/ \E bodyPath \in BodyPaths : PostAnalyze(bodyPath)
    \/ \E i \in 1..Len(requests) : CodebaseReturns(i)
    \/ \E i \in 1..Len(requests) : CodebaseThrows(i)
    \/ \E i \in 1..Len(requests) : SymbolsReturns(i)
    \/ \E i \in 1..Len(requests) : SymbolsThrows(i)
    \/ GetGraph
    \/ GetSymbols
    \/ \E i \in 1..Len(requests) : LazySymbolsReturns(i)
    \/ \E i \in 1..Len(requests) : LazySymbolsThrows(i)
    \/ \E relPath \in QueryPaths : GetFile(relPath)

SpecServer == InitServer /\ [][NextServer]_vars

-----------------------------------------------------------------------------
(* The file graph: what the claims read.                                   *)

Done == pc = "done"

NodeIds == {graph.nodes[i].id : i \in 1..Len(graph.nodes)}

EdgeIndices == 1..Len(graph.edges)

\* The two ends of an edge, as a set.
Ends(e) == {e.source, e.target}

\* The import facts of the scanned files as (file, fact index) pairs, and
\* the script references of the pages as (page, reference index) pairs.
ImportFactIds ==
    UNION { {<<f, i>> : i \in 1..Len(fileData[f].imports)} : f \in DOMAIN fileData }

ScriptRefIds ==
    UNION { {<<f, i>> : i \in 1..Len(fileData[f].htmlScriptRefs)} : f \in DOMAIN fileData }

RECURSIVE SumOver(_, _)
\* The sum of the function f over the finite set S.
SumOver(S, f) ==
    IF S = {} THEN 0
    ELSE LET x == CHOOSE y \in S : TRUE IN f[x] + SumOver(S \ {x}, f)

\* The weight the import facts and script references between the files of
\* `pair` add up to: the specifier count of every import fact from one to
\* the other whose target is a scanned file, and one for every script
\* reference from one to the other that names a scanned file.
RecomputedWeight(pair) ==
    LET imports == {x \in ImportFactIds :
                      LET imp == fileData[x[1]].imports[x[2]]
                      IN  imp.resolved \in DOMAIN fileData /\ {x[1], imp.resolved} = pair}
        scripts == {x \in ScriptRefIds :
                      LET ref == fileData[x[1]].htmlScriptRefs[x[2]]
                      IN  ref \in DOMAIN fileData /\ {x[1], ref} = pair}
    IN  SumOver(imports, [x \in imports |-> Len(fileData[x[1]].imports[x[2]].specifiers)])
        + Cardinality(scripts)

\* File `from` holds an import fact that resolves to file `to`.
Imports(from, to) ==
    \E i \in 1..Len(fileData[from].imports) : fileData[from].imports[i].resolved = to

\* Page `from` holds a script reference that resolves to file `to`.
References(from, to) ==
    \E i \in 1..Len(fileData[from].htmlScriptRefs) : fileData[from].htmlScriptRefs[i] = to

\* An edge list as the set of its (unordered pair, weight) members.
EdgeSet(edges) ==
    {[pair |-> Ends(edges[i]), weight |-> edges[i].weight] : i \in 1..Len(edges)}

\* The edge builder run over the extracted facts with the files in `order`.
EdgesBuiltIn(order) ==
    EdgesOf(BuildScriptEdges(BuildImportEdges(<<>>, order, fileData), order, fileData))

-----------------------------------------------------------------------------
(* The claims about the file graph.                                        *)

\* C2: every returned file edge has two distinct endpoints, both ids of
\* returned nodes, also when a file refers to itself.
C2_EndpointsDistinctAndKnown ==
    Done => \A i \in EdgeIndices :
                /\ graph.edges[i].source # graph.edges[i].target
                /\ graph.edges[i].source \in NodeIds
                /\ graph.edges[i].target \in NodeIds

\* C3: every returned file edge has weight >= 1, also when the imports
\* between its files carry no specifier.
C3_WeightAtLeastOne ==
    Done => \A i \in EdgeIndices : graph.edges[i].weight >= 1

\* C4: the returned edge list holds at most one edge per unordered pair of
\* file ids.
C4_OneEdgePerPair ==
    Done => \A i, j \in EdgeIndices : i # j => Ends(graph.edges[i]) # Ends(graph.edges[j])

\* C4's case: imports from a.js to b.js and from b.js to a.js, and an import
\* of p.html by a.js with a script reference of p.html to a.js, each pair
\* met by one edge.
C4_Witness ==
    /\ Done
    /\ PageP \in DOMAIN fileData
    /\ Imports(FileA, FileB) /\ Imports(FileB, FileA)
    /\ Imports(FileA, PageP) /\ References(PageP, FileA)
    /\ \E i, j \in EdgeIndices : /\ Ends(graph.edges[i]) = {FileA, FileB}
                                 /\ Ends(graph.edges[j]) = {FileA, PageP}

C6_OrderIndependent ==
    Done => \A order \in Orders(Range(uniqueFiles)) :
                EdgeSet(EdgesBuiltIn(order)) = EdgeSet(graph.edges)

\* C6's case: three scanned files, not in sorted order, and an edge that
\* both of its files contribute to with different weights.
C6_Witness ==
    /\ Done
    /\ Len(uniqueFiles) = 3
    /\ uniqueFiles[1] = FileB
    /\ \E i \in EdgeIndices :
          /\ Ends(graph.edges[i]) = {FileA, FileB}
          /\ Imports(FileA, FileB) /\ Imports(FileB, FileA)
          /\ graph.edges[i].weight = 1
    /\ Len(graph.edges) >= 2

\* C10: a scanned source file that does not parse is a node with empty
\* exports, contributes no import fact, and has its text's line count as
\* lines.
C10_BrokenFileKeepsLineCount ==
    Done => \A i \in 1..Len(graph.nodes) :
                LET n == graph.nodes[i]
                    entry == fs[PathJoin(RootDir, n.id)]
                IN  (n.extension \in Range(EXTENSIONS) /\ ~entry.parses)
                    => /\ n.exports = <<>>
                       /\ fileData[n.id].imports = <<>>
                       /\ n.lines = entry.lines

-----------------------------------------------------------------------------
(* The symbol graph: what the claims read.                                  *)

SymDone == pc = "sym_done"

\* The (source, target, kind) of an edge.
Triple(e) == <<e.source, e.target, e.type>>

SymbolIdsOf(symbols) == {symbols[i].id : i \in 1..Len(symbols)}

\* The emissions of a triple: their places in the list of emitted edges.
Emissions(t) == {k \in 1..Len(allEdges) : Triple(allEdges[k]) = t}

\* The set union of the conditions the emissions of a triple carried.
EmittedUnion(t) == UNION {Range(emitted[k]) : k \in Emissions(t)}

\* The emitted edges with emission k moved to the front.
MovedFirst(k) ==
    <<allEdges[k]>> \o SubSeq(allEdges, 1, k - 1) \o SubSeq(allEdges, k + 1, Len(allEdges))

\* The condition set the deduplication of `edges` leaves on triple t.
MergedSet(edges, t) ==
    LET st == DedupeFrom(edges, 1, [map |-> <<>>, heap |-> heap])
        at == CHOOSE i \in 1..Len(st.map) : Triple(st.map[i]) = t
    IN  Range(ConditionsOf(st.heap, st.map[at]))

\* C1: every returned edge has a source and a target that are ids of
\* returned symbols.
C1_NoDanglingEdges ==
    \A i \in 1..Len(result.edges) :
        /\ result.edges[i].source \in SymbolIdsOf(result.symbols)
        /\ result.edges[i].target \in SymbolIdsOf(result.symbols)

\* A run that returned an intra-file edge and a cross-file edge and dropped
\* an emitted edge whose source is no symbol.
C1_Witness ==
    /\ SymDone
    /\ \E i \in 1..Len(edgeMap2) : edgeMap2[i].source \notin SymbolIdsOf(allSymbols)
    /\ \E i, j \in 1..Len(result.edges) :
          /\ \E sy \in Range(allSymbols) : /\ sy.id = result.edges[i].target
                                           /\ sy.file = FileA
          /\ \E sy \in Range(allSymbols) : /\ sy.id = result.edges[j].target
                                           /\ sy.file = FileB

\* C7: the returned edge list has at most one edge for each (source,
\* target, kind).
C7_OneEdgePerTriple ==
    \A i, j \in 1..Len(result.edges) :
        Triple(result.edges[i]) = Triple(result.edges[j]) => i = j

\* A run that returned an edge whose triple was emitted more than once.
C7_Witness ==
    /\ SymDone
    /\ \E i \in 1..Len(result.edges) :
          Cardinality(Emissions(Triple(result.edges[i]))) >= 2

\* C8: for a triple emitted two or more times, the surviving edge's
\* conditions are the set union of the emitted (condition, branch) pairs,
\* none repeated, and the same set whichever emission is processed first.
C8_MergeIsUnion ==
    /\ SymDone =>
          \A i \in 1..Len(result.edges) :
              Cardinality(Emissions(Triple(result.edges[i]))) >= 2 =>
                  /\ Range(result.edges[i].conditions)
                         = EmittedUnion(Triple(result.edges[i]))
                  /\ Len(result.edges[i].conditions)
                         = Cardinality(Range(result.edges[i].conditions))
    /\ (pc = "sym_pass2" /\ idx > Len(uniqueFiles)) =>
          \A k \in 1..Len(allEdges) :
              Cardinality(Emissions(Triple(allEdges[k]))) >= 2 =>
                  MergedSet(MovedFirst(k), Triple(allEdges[k]))
                      = MergedSet(allEdges, Triple(allEdges[k]))

\* C9: every symbol id occurs at most once in the returned symbols list.
C9_SymbolIdsUnique ==
    \A i, j \in 1..Len(result.symbols) :
        result.symbols[i].id = result.symbols[j].id => i = j

-----------------------------------------------------------------------------
(* analyzeSymbols as one function of the disk and the scan order, for the   *)
(* claims that compare two runs.                                            *)

RECURSIVE FirstLoopFrom(_, _, _, _)
\* The first loop from turn i on; st holds allSymbols, allEdges,
\* fileImports and the heap.
FirstLoopFrom(disk, order, i, st) ==
    IF i > Len(order) THEN st
    ELSE LET r == FirstPassFile(disk, order[i], st.heap)
         IN  FirstLoopFrom(disk, order, AfterFile(r.parsed, i, Len(order)),
                 IF ~r.parsed THEN st
                 ELSE [allSymbols |-> st.allSymbols \o r.symbols,
                       allEdges |-> st.allEdges \o r.edges,
                       fileImports |-> TableSet(st.fileImports, order[i], r.imports),
                       heap |-> r.heap])

RECURSIVE SecondLoopFrom(_, _, _, _, _)
\* The second loop from turn i on.
SecondLoopFrom(disk, order, table, i, st) ==
    IF i > Len(order) THEN st
    ELSE LET r == SecondPassFile(disk, table, st.fileImports, order[i], st.heap)
         IN  SecondLoopFrom(disk, order, table, AfterFile(r.parsed, i, Len(order)),
                 [st EXCEPT !.allEdges = @ \o r.edges, !.heap = r.heap])

\* analyzeSymbols(rootDir) on `disk` when the scan returns `order`.
AnalyzeSymbols(disk, order) ==
    LET first == FirstLoopFrom(disk, order, 1,
                     [allSymbols |-> <<>>, allEdges |-> <<>>, fileImports |-> <<>>,
                      heap |-> <<>>])
        second == SecondLoopFrom(disk, order, SymbolByFileFrom(first.allSymbols, 1, <<>>),
                                 1, first)
        deduped == DedupeFrom(second.allEdges, 1, [map |-> <<>>, heap |-> second.heap])
    IN  Returned(first.allSymbols, ValidEdges(deduped.map, first.allSymbols),
                 deduped.heap, order)

\* The scanned files that do not parse.
BrokenScanned == {f \in Range(uniqueFiles) : ~ParseFile(fs, PathJoin(RootDir, f)).parsed}

\* The disk with the text of `file` replaced by an empty source text.
WithEmptied(disk, file) ==
    [p \in DOMAIN disk |-> IF p = PathJoin(RootDir, file) THEN SourceOf(<<>>) ELSE disk[p]]

\* C11: when a scanned file does not parse, the run still returns; the file
\* is in the returned files, owns no returned symbol, and the returned
\* symbols and edges are those of the run on the disk where that file is an
\* empty text.
C11_BrokenFileIsSkipped ==
    SymDone =>
        \A f \in BrokenScanned :
            /\ f \in Range(result.files)
            /\ \A i \in 1..Len(result.symbols) : result.symbols[i].file # f
            /\ LET other == AnalyzeSymbols(WithEmptied(fs, f), uniqueFiles)
               IN  /\ result.symbols = other.symbols
                   /\ result.edges = other.edges

\* A run that returned symbols and an edge of the other file although the
\* first scanned file did not parse.
C11_Witness ==
    /\ SymDone
    /\ uniqueFiles # <<>>
    /\ uniqueFiles[1] \in BrokenScanned
    /\ result.symbols # <<>>
    /\ result.edges # <<>>

-----------------------------------------------------------------------------
(* The server: what the claims read.                                        *)

\* C12: at every moment the cached graph, target and symbols a reader is
\* answered from belong to one analysis: the graph and the target of one
\* run are never cached together with the symbols of another.
C12_CacheIsOneAnalysis ==
    (cachedGraph # Null /\ cachedSymbols # Null) =>
        /\ RunOf(cachedSymbols) = RunOf(cachedGraph)
        /\ RootOf(cachedSymbols) = cachedTarget
        /\ RootOf(cachedGraph) = cachedTarget

\* The path lies inside the directory: it is the directory or below it.
Inside(fullPath, dir) == fullPath = dir \/ StartsWith(fullPath, dir \o <<"/">>)

\* C13: GET /api/file answers with content only for a path that resolves
\* inside the analyzed root, and answers 403 for every path that resolves
\* outside it.
C13_FileOnlyInsideRoot ==
    \A i \in 1..Len(requests) :
        (requests[i].kind = "file" /\ requests[i].root # Null /\ requests[i].path # Null) =>
            LET fullPath == PathResolve(requests[i].root, requests[i].path)
            IN  /\ requests[i].status = 200 => Inside(fullPath, requests[i].root)
                /\ ~Inside(fullPath, requests[i].root) => requests[i].status = 403

-----------------------------------------------------------------------------
(* The import resolver under analyzeCodebase: a.js imports { x } from one   *)
(* specifier and calls x inside function g; the disk holds, under one base   *)
(* name N, any of: a file N, a directory N, N/index.js, N/index.ts, N.js,    *)
(* N.ts.  Every target file is `export function x() {}`.                     *)

BaseNames == {"b", "lodash"}

\* The specifiers written for the base name n: "./n", "/r/n", "./n.js", "n".
SpecifiersOf(n) ==
    { <<".", "/", n>>, RootDir \o <<"/", n>>, <<".", "/", n, ".js">>, <<n>> }

TargetSource ==
    SourceOf(<<ExportNamedDeclaration(<<FunctionDeclaration("x", <<>>)>>, <<>>)>>)

ImporterOf(specifier) ==
    SourceOf(<<ImportDeclaration(specifier, <<ImportSpecifier("x", "x")>>),
               FunctionDeclaration("g", <<Call("x", <<>>)>>)>>)

\* What lies at the exact path /r/n: nothing, a file, or a directory with
\* no, one or two index files.
ExactEntries(n) ==
    LET base == PathJoin(RootDir, <<n>>)
        js == PathJoin(base, <<"index", ".js">>) :> TargetSource
        ts == PathJoin(base, <<"index", ".ts">>) :> TargetSource
    IN  { <<>>,
          base :> TargetSource,
          base :> DirEntry,
          (base :> DirEntry) @@ js,
          (base :> DirEntry) @@ ts,
          (base :> DirEntry) @@ js @@ ts }

\* The files /r/n.js and /r/n.ts: neither, either or both.
ExtensionEntries(n) ==
    LET js == PathJoin(RootDir, <<n, ".js">>) :> TargetSource
        ts == PathJoin(RootDir, <<n, ".ts">>) :> TargetSource
    IN  { <<>>, js, ts, js @@ ts }

ResolverDisks ==
    UNION { { (RootDir :> DirEntry) @@ (PathJoin(RootDir, FileA) :> ImporterOf(sp))
              @@ exact @@ withExt :
                sp \in SpecifiersOf(n), exact \in ExactEntries(n),
                withExt \in ExtensionEntries(n) } : n \in BaseNames }

InitResolver ==
    /\ fs \in ResolverDisks
    /\ pc = "start"
    /\ uniqueFiles = <<>>
    /\ fileData = <<>>
    /\ nodes = <<>>
    /\ edgeMap = <<>>
    /\ graph = NoGraph
    /\ idx = 1
    /\ allSymbols = <<>>
    /\ allEdges = <<>>
    /\ fileImports = <<>>
    /\ symbolByFile = <<>>
    /\ heap = <<>>
    /\ edgeMap2 = <<>>
    /\ emitted = <<>>
    /\ fileCalls = <<>>
    /\ result = NoResult
    /\ cachedGraph = <<>>
    /\ cachedTarget = <<>>
    /\ cachedSymbols = <<>>
    /\ requests = <<>>

SpecResolver == InitResolver /\ [][Next]_vars

-----------------------------------------------------------------------------
(* Claims about resolveImport, checked on SpecResolver.                     *)

\* The importer's absolute path and the specifier it is written with.
ImporterPath == PathJoin(RootDir, FileA)

ImporterSpecifier == fs[ImporterPath].ast.kids[1].value

\* The import facts recorded for a.js.
ImporterFacts == fileData[FileA].imports

\* A specifier that starts with neither "." nor "/".
IsBare(specifier) ==
    Head(specifier) \notin DotTokens /\ Head(specifier) # "/"

\* The files analyzeSymbols scans, in the order of this run's scan.
SymbolScan == SelectSeq(uniqueFiles, LAMBDA f : PathExtname(f) \in Range(EXTENSIONS))

\* The symbol-graph edges that join symbols of two different files.
CrossFileSymbolEdges(res) ==
    { i \in 1..Len(res.edges) :
        \E s, t \in 1..Len(res.symbols) :
            /\ res.symbols[s].id = res.edges[i].source
            /\ res.symbols[t].id = res.edges[i].target
            /\ res.symbols[s].file # res.symbols[t].file }

\* C14: a specifier that starts with neither "." nor "/" is unresolved
\* whatever the disk holds, so the finished analysis has no import fact for
\* it, no file edge at the importer, and no symbol edge across files.
C14_BareSpecifierUnresolved ==
    (Done /\ IsBare(ImporterSpecifier)) =>
        /\ ResolveImport(fs, ImporterSpecifier, ImporterPath, RootDir) = Null
        /\ ImporterFacts = <<>>
        /\ \A i \in 1..Len(graph.edges) :
               FileA \notin {graph.edges[i].source, graph.edges[i].target}
        /\ CrossFileSymbolEdges(AnalyzeSymbols(fs, SymbolScan)) = {}

\* A finished run whose bare specifier names both a local directory with an
\* index file and a local file.
C14_Witness ==
    /\ Done
    /\ ImporterSpecifier = <<"lodash">>
    /\ ExistsSync(fs, PathJoin(RootDir, <<"lodash", "/", "index", ".js">>))
    /\ ExistsSync(fs, PathJoin(RootDir, <<"lodash", ".js">>))
    /\ Len(graph.nodes) = 3

\* The candidate paths of an absolute base path in the order the resolver is
\* described to try them.
CandidateExtensions ==
    << <<".js">>, <<".jsx">>, <<".ts">>, <<".tsx">>, <<".mjs">>, <<".cjs">> >>

CandidatesInOrder(base) ==
    <<base>>
    \o [i \in 1..6 |-> base \o CandidateExtensions[i]]
    \o [i \in 1..6 |-> base \o <<"/", "index">> \o CandidateExtensions[i]]

\* The first path of `cands` that exists on `disk`, as a one-element
\* sequence; empty when none exists.
FirstExisting(disk, cands) ==
    LET hits == {i \in 1..Len(cands) : ExistsSync(disk, cands[i])}
    IN  IF hits = {} THEN <<>>
        ELSE <<cands[CHOOSE i \in hits : \A j \in hits : i <= j]>>

\* The absolute base path of the importer's specifier.
ImporterBase ==
    IF Head(ImporterSpecifier) = "/" THEN ImporterSpecifier
    ELSE RootDir \o <<"/">> \o Tail(Tail(ImporterSpecifier))

\* C15: for a specifier that starts with "." or "/", the recorded target is
\* the root-relative form of the first existing candidate (exact path, then
\* path + extension, then index.<ext> inside), and there is no import fact
\* exactly when no candidate exists.
C15_FirstExistingCandidate ==
    (Done /\ ~IsBare(ImporterSpecifier)) =>
        LET first == FirstExisting(fs, CandidatesInOrder(ImporterBase))
        IN  /\ first = <<>> <=> ImporterFacts = <<>>
            /\ first # <<>> =>
                   /\ Len(ImporterFacts) = 1
                   /\ RootDir \o <<"/">> \o ImporterFacts[1].resolved = first[1]

\* A finished run in which the exact path is missing, b.js and b.ts both
\* exist, and b.js is the recorded target.
C15_Witness ==
    /\ Done
    /\ ImporterSpecifier = <<".", "/", "b">>
    /\ ~ExistsSync(fs, PathJoin(RootDir, <<"b">>))
    /\ ExistsSync(fs, PathJoin(RootDir, <<"b", ".js">>))
    /\ ExistsSync(fs, PathJoin(RootDir, <<"b", ".ts">>))
    /\ Len(ImporterFacts) = 1
    /\ ImporterFacts[1].resolved = <<"b", ".js">>

\* The index files that exist inside the directory `base`, in candidate order.
IndexFilesOf(disk, base) ==
    FirstExisting(disk, [i \in 1..6 |-> base \o <<"/", "index">> \o CandidateExtensions[i]])

\* The importer names a directory that holds an index file, and no file
\* base + extension exists.
NamesIndexedDirectory ==
    /\ ~IsBare(ImporterSpecifier)
    /\ ExistsSync(fs, ImporterBase)
    /\ fs[ImporterBase].kind = "dir"
    /\ IndexFilesOf(fs, ImporterBase) # <<>>
    /\ \A i \in 1..6 : ~ExistsSync(fs, ImporterBase \o CandidateExtensions[i])

\* C16: a specifier that names a directory D holding an index file, with no
\* file D + extension, resolves to D/index.<ext>, and the file graph has an
\* edge between the importer and D/index.<ext>.
C16_DirectoryResolvesToIndex ==
    (Done /\ NamesIndexedDirectory) =>
        LET index == PathRelative(RootDir, IndexFilesOf(fs, ImporterBase)[1])
        IN  /\ ResolveImport(fs, ImporterSpecifier, ImporterPath, RootDir) = index
            /\ \E i \in 1..Len(graph.edges) :
                   {graph.edges[i].source, graph.edges[i].target} = {FileA, index}

-----------------------------------------------------------------------------
(* Call sites: a.js is `export function foo() {}`; b.js is an optional      *)
(* `import { foo } from "./a.js"` followed by up to MaxStatements of the     *)
(* statements below.  Both analyses run on these disks.                      *)

CallFoo == Call("foo", <<>>)

CallBar == Call("bar", <<>>)

If(text, consequent) == IfStatement(<<text>>, <<Identifier(text)>>, consequent, FALSE, <<>>)

IfElse(text, consequent, alternate) ==
    IfStatement(<<text>>, <<Identifier(text)>>, consequent, TRUE, alternate)

\*   foo();
\*   (() => { foo(); });
\*   if (X) { foo(); }
\*   const h = () => { if (X) { foo(); } };
\*   function bar() {}
\*   function foo() { if (cond) { bar(); } }
\*   function g() { if (X) { if (Y) { bar(); } else { foo(); } } }
\*   function g() { X ? bar() : foo(); }
\*   function g() { if (X) { (() => { bar(); }); } foo(); }
\*   class C { m() { if (Y) { bar(); } } }
CallSiteStatements ==
    { CallFoo,
      ArrowFunctionExpression(<<CallFoo>>),
      If("X", <<CallFoo>>),
      VariableDeclaration(<<VariableDeclarator("h",
          <<ArrowFunctionExpression(<<If("X", <<CallFoo>>)>>)>>)>>),
      FunctionDeclaration("bar", <<>>),
      FunctionDeclaration("foo", <<If("cond", <<CallBar>>)>>),
      FunctionDeclaration("g", <<If("X", <<IfElse("Y", <<CallBar>>, <<CallFoo>>)>>)>>),
      FunctionDeclaration("g",
          <<ConditionalExpression(<<"X">>, <<Identifier("X")>>, <<CallBar>>, <<CallFoo>>)>>),
      FunctionDeclaration("g",
          <<If("X", <<ArrowFunctionExpression(<<CallBar>>)>>), CallFoo>>),
      ClassDeclaration("C", "", <<ClassMethod("m", "method", <<If("Y", <<CallBar>>)>>)>>) }

ImportFoo == ImportDeclaration(<<".", "/", "a", ".js">>, <<ImportSpecifier("foo", "foo")>>)

ExportFoo == ExportNamedDeclaration(<<FunctionDeclaration("foo", <<>>)>>, <<>>)

CallSiteDisks ==
    { (RootDir :> DirEntry)
      @@ (PathJoin(RootDir, FileA) :> SourceOf(<<ExportFoo>>))
      @@ (PathJoin(RootDir, FileB) :> SourceOf(im \o body)) :
        im \in { <<>>, <<ImportFoo>> },
        body \in SeqUpTo(CallSiteStatements, MaxStatements) }

InitCalls ==
    /\ fs \in CallSiteDisks
    /\ pc \in {"start", "sym_start"}
    /\ uniqueFiles = <<>>
    /\ fileData = <<>>
    /\ nodes = <<>>
    /\ edgeMap = <<>>
    /\ graph = NoGraph
    /\ idx = 1
    /\ allSymbols = <<>>
    /\ allEdges = <<>>
    /\ fileImports = <<>>
    /\ symbolByFile = <<>>
    /\ heap = <<>>
    /\ edgeMap2 = <<>>
    /\ emitted = <<>>
    /\ fileCalls = <<>>
    /\ result = NoResult
    /\ cachedGraph = <<>>
    /\ cachedTarget = <<>>
    /\ cachedSymbols = <<>>
    /\ requests = <<>>

NextCalls ==
    \/ Scan
    \/ FirstPass
    \/ SecondPass
    \/ BuildNodes
    \/ ImportEdges
    \/ ScriptEdges
    \/ Return
    \/ SymScan
    \/ SymFirstPassFile
    \/ SymBuildLookup
    \/ SymSecondPassFile
    \/ SymDedupe
    \/ SymReturn

SpecCalls == InitCalls /\ [][NextCalls]_vars

-----------------------------------------------------------------------------
(* Claims about call sites, checked on SpecCalls.                           *)

\* A turn of one of the two loops of analyzeSymbols has just ended.
InTurn == pc \in {"sym_pass1", "sym_pass2"} /\ idx > 1

\* The file of that turn and its syntax tree.
TurnFile == uniqueFiles[idx - 1]

TreeOf(file) == fs[PathJoin(RootDir, file)].ast

\* The paths to the calls of a named callee other than require, in
\* traversal order.
CallPaths(ast) ==
    SelectSeq(Traverse(ast), LAMBDA p :
        /\ NodeOf(p).type = "CallExpression"
        /\ NodeOf(p).name \notin {"", "require"})

\* The call lies inside a named function, an arrow function or function
\* expression assigned to a variable, or a class method.
EnclosedByNamed(p) ==
    \E k \in 1..(Len(p) - 1) :
        \/ p[k].node.type = "FunctionDeclaration" /\ p[k].node.name # ""
        \/ /\ p[k].node.type \in {"ArrowFunctionExpression", "FunctionExpression"}
           /\ k >= 2
           /\ p[k - 1].node.type = "VariableDeclarator"
           /\ p[k - 1].node.name # ""
        \/ p[k].node.type = "ClassMethod" /\ p[k].node.name # ""

\* The symbols of the result that belong to `file`.
SymbolIdsIn(res, file) ==
    {res.symbols[i].id : i \in {j \in 1..Len(res.symbols) : res.symbols[j].file = file}}

\* b.js is `import { foo } from "./a.js"; foo();`.
IsTopLevelCallExample ==
    fs[PathJoin(RootDir, FileB)] = SourceOf(<<ImportFoo, CallFoo>>)

\* C17: the call facts of a file are those of its calls that lie inside a
\* named function, a variable-assigned arrow function or function
\* expression, or a class method; a file with no such call is the source of
\* no calls edge; for a.js `export function foo() {}` and b.js
\* `import { foo } from "./a.js"; foo();` the file graph has two nodes and
\* one edge of weight 1 and the symbol graph has the one symbol a.js::foo
\* and no edge.
C17_TopLevelCallHasNoFact ==
    /\ InTurn =>
           Len(fileCalls) = Len(SelectSeq(CallPaths(TreeOf(TurnFile)), EnclosedByNamed))
    /\ SymDone =>
           \A f \in Range(result.files) :
               SelectSeq(CallPaths(TreeOf(f)), EnclosedByNamed) = <<>> =>
                   \A i \in 1..Len(result.edges) :
                       result.edges[i].type = "calls" =>
                           result.edges[i].source \notin SymbolIdsIn(result, f)
    /\ (SymDone /\ IsTopLevelCallExample) =>
           /\ [i \in 1..Len(result.symbols) |-> result.symbols[i].id]
                  = << SymbolId(FileA, NameOf("foo")) >>
           /\ result.edges = <<>>
    /\ (Done /\ IsTopLevelCallExample) =>
           /\ Len(graph.nodes) = 2
           /\ Len(graph.edges) = 1
           /\ graph.edges[1].weight = 1

\* The symbol graph of the example, returned.
C17_Witness ==
    /\ SymDone
    /\ IsTopLevelCallExample
    /\ Len(result.symbols) = 1
    /\ Len(allEdges) = 1

FunctionBoundaries ==
    {"FunctionDeclaration", "ArrowFunctionExpression", "FunctionExpression", "ClassMethod"}

\* The if statements and ternaries around the call with no function
\* boundary between them and the call, as indices into the path.
ConditionsAround(p) ==
    {k \in 1..(Len(p) - 1) :
        /\ p[k].node.type \in {"IfStatement", "ConditionalExpression"}
        /\ p[k].node.value # <<>>
        /\ \A j \in (k + 1)..(Len(p) - 1) : p[j].node.type \notin FunctionBoundaries}

\* The text of the innermost of them, as a list of no or one text.
InnermostConditionText(p) ==
    IF ConditionsAround(p) = {} THEN <<>>
    ELSE << p[CHOOSE k \in ConditionsAround(p) :
                  \A j \in ConditionsAround(p) : j <= k].node.value >>

\* b.js declares `function foo() { if (cond) { bar(); } }` and
\* `function bar() {}`.
IsConditionalCallExample ==
    LET body == fs[PathJoin(RootDir, FileB)].ast.kids
    IN  /\ FunctionDeclaration("foo", <<If("cond", <<CallBar>>)>>) \in Range(body)
        /\ FunctionDeclaration("bar", <<>>) \in Range(body)

\* The calls edges of the result from foo to bar of b.js.
FooToBar ==
    {i \in 1..Len(result.edges) :
        /\ result.edges[i].source = SymbolId(FileB, NameOf("foo"))
        /\ result.edges[i].target = SymbolId(FileB, NameOf("bar"))
        /\ result.edges[i].type = "calls"}

\* C18: every call fact carries at most one condition, the innermost if
\* statement or ternary around the call that is reached before a function
\* boundary; `if (cond) { bar(); }` inside foo, with bar a symbol of the
\* same file, gives one calls edge foo -> bar whose conditions are exactly
\* the text "cond" with branch "if".
C18_InnermostConditionOnly ==
    /\ InTurn =>
           LET sites == SelectSeq(CallPaths(TreeOf(TurnFile)), EnclosedByNamed)
           IN  /\ Len(fileCalls) = Len(sites)
               /\ \A i \in 1..Len(fileCalls) :
                      /\ Len(fileCalls[i].conditions) <= 1
                      /\ [j \in 1..Len(fileCalls[i].conditions) |->
                             fileCalls[i].conditions[j].condition]
                             = InnermostConditionText(sites[i])
    /\ (SymDone /\ IsConditionalCallExample) =>
           /\ Cardinality(FooToBar) = 1
           /\ \A i \in FooToBar :
                  result.edges[i].conditions
                      = << [condition |-> <<"cond">>, branch |-> "if"] >>

\* A turn that extracted the call of bar under `if (Y)` nested in `if (X)`,
\* and the call of foo in the else branch.
C18_Witness ==
    /\ InTurn
    /\ Len(fileCalls) = 2
    /\ fileCalls[1].conditions = << [condition |-> <<"Y">>, branch |-> "if"] >>
    /\ fileCalls[2].conditions = << [condition |-> <<"Y">>, branch |-> "else"] >>

-----------------------------------------------------------------------------
(* Claims about the nodes of the file graph, checked on Spec.               *)

\* The import facts, over all scanned files, that resolve to `id`.
ImportFactsTo(id) ==
    {x \in ImportFactIds : fileData[x[1]].imports[x[2]].resolved = id}

\* The script references, over all scanned pages, that name `id`.
ScriptRefsTo(id) ==
    {x \in ScriptRefIds : fileData[x[1]].htmlScriptRefs[x[2]] = id}

\* C19: the incomingCount of every node is the number of import facts, over
\* all scanned files, whose resolved target is the node's id: one per fact
\* whatever its number of specifiers, and none for a script reference.
C19_IncomingCountsImportFacts ==
    Done =>
        \A i \in 1..Len(graph.nodes) :
            graph.nodes[i].incomingCount
                = Cardinality(ImportFactsTo(graph.nodes[i].id))

\* A finished run in which a.js is named by a script reference and by two
\* import facts, one of them with no specifier.
C19_Witness ==
    /\ Done
    /\ ScriptRefsTo(FileA) # {}
    /\ Cardinality(ImportFactsTo(FileA)) = 2
    /\ \E x \in ImportFactsTo(FileA) : fileData[x[1]].imports[x[2]].specifiers = <<>>
    /\ \E i \in 1..Len(graph.nodes) :
           graph.nodes[i].id = FileA /\ graph.nodes[i].incomingCount = 2

-----------------------------------------------------------------------------
(* Declarations and exports: a.js is up to MaxDeclarations of the           *)
(* statements below; b.js is `function bar() {}` or does not parse; the     *)
(* page p.html is there or not.                                             *)

\*   function foo() {}          export function foo() {}
\*   export { foo };            export default foo;
\*   module.exports = foo;      class C {}
\*   var bar = 1;               export var bar = 1;
DeclarationStatements ==
    { FunctionDeclaration("foo", <<>>),
      ExportFoo,
      ExportNamedDeclaration(<<>>, <<"foo">>),
      ExportDefaultDeclaration(Identifier("foo")),
      AssignmentExpression("module", "exports", Identifier("foo")),
      ClassDeclaration("C", "", <<>>),
      VariableDeclaration(<<VariableDeclarator("bar", <<NumericLiteral>>)>>),
      ExportNamedDeclaration(
          <<VariableDeclaration(<<VariableDeclarator("bar", <<NumericLiteral>>)>>)>>, <<>>) }

DeclarationDisks ==
    { (RootDir :> DirEntry)
      @@ (PathJoin(RootDir, FileA) :> SourceOf(body))
      @@ (PathJoin(RootDir, FileB) :> b) @@ page :
        body \in SeqUpTo(DeclarationStatements, MaxDeclarations),
        b \in { SourceOf(<<FunctionDeclaration("bar", <<>>)>>), BrokenFile(1) },
        page \in { <<>>, PathJoin(RootDir, PageP) :> HtmlFile(1, <<>>) } }

InitNodes ==
    /\ fs \in DeclarationDisks
    /\ pc = "start"
    /\ uniqueFiles = <<>>
    /\ fileData = <<>>
    /\ nodes = <<>>
    /\ edgeMap = <<>>
    /\ graph = NoGraph
    /\ idx = 1
    /\ allSymbols = <<>>
    /\ allEdges = <<>>
    /\ fileImports = <<>>
    /\ symbolByFile = <<>>
    /\ heap = <<>>
    /\ edgeMap2 = <<>>
    /\ emitted = <<>>
    /\ fileCalls = <<>>
    /\ result = NoResult
    /\ cachedGraph = <<>>
    /\ cachedTarget = <<>>
    /\ cachedSymbols = <<>>
    /\ requests = <<>>

SpecNodes == InitNodes /\ [][Next]_vars

\* The files the scan finds on the disk.
ScannedFiles ==
    UNION { GlobMatches(fs, RootDir, ALL_EXTENSIONS[i]) : i \in 1..Len(ALL_EXTENSIONS) }

\* The names of the export facts of a file.
ExportNamesOf(file) ==
    {fileData[file].exports[i].name : i \in 1..Len(fileData[file].exports)}

\* C20: the file graph has exactly one node per scanned file, and the
\* exports list of a node is the export facts of its file followed by the
\* top-level declaration facts whose name is no export name of that file,
\* in their order; no declaration named like an export is among them.
C20_OneNodePerFileExportsMerged ==
    Done =>
        /\ \A f \in ScannedFiles :
               Cardinality({i \in 1..Len(graph.nodes) : graph.nodes[i].id = f}) = 1
        /\ \A i \in 1..Len(graph.nodes) : graph.nodes[i].id \in ScannedFiles
        /\ \A i \in 1..Len(graph.nodes) :
               LET node == graph.nodes[i]
                   facts == fileData[node.id].exports
                   added == SubSeq(node.exports, Len(facts) + 1, Len(node.exports))
               IN  /\ Len(node.exports) >= Len(facts)
                   /\ SubSeq(node.exports, 1, Len(facts)) = facts
                   /\ added = SelectSeq(fileData[node.id].globals,
                                        LAMBDA g : g.name \notin ExportNamesOf(node.id))
                   /\ \A j \in 1..Len(added) : added[j].name \notin ExportNamesOf(node.id)

\* A finished run on three files in which a.js is `function foo() {}` and
\* `export { foo }`: its node lists foo once, as the re-export.
C20_Witness ==
    /\ Done
    /\ Len(graph.nodes) = 3
    /\ \E i \in 1..Len(graph.nodes) :
           /\ graph.nodes[i].id = FileA
           /\ fileData[FileA].globals = << [name |-> "foo", type |-> "function"] >>
           /\ graph.nodes[i].exports = << [name |-> "foo", type |-> "re-export"] >>

-----------------------------------------------------------------------------
(* Imported calls: a.js exports foo, by name or as the default; b.js        *)
(* imports it under one of several bindings and calls the local name        *)
(* inside function g.                                                       *)

\* The state before analyzeSymbols runs on one of `disks`.
InitSymOn(disks) ==
    /\ fs \in disks
    /\ pc = "sym_start"
    /\ uniqueFiles = <<>>
    /\ fileData = <<>>
    /\ nodes = <<>>
    /\ edgeMap = <<>>
    /\ graph = NoGraph
    /\ idx = 1
    /\ allSymbols = <<>>
    /\ allEdges = <<>>
    /\ fileImports = <<>>
    /\ symbolByFile = <<>>
    /\ heap = <<>>
    /\ edgeMap2 = <<>>
    /\ emitted = <<>>
    /\ fileCalls = <<>>
    /\ result = NoResult
    /\ cachedGraph = <<>>
    /\ cachedTarget = <<>>
    /\ cachedSymbols = <<>>
    /\ requests = <<>>

\* The specifiers of b.js's import from "./a.js":
\*   { foo }   { foo as bar }   foo (default)   bar (default)   * as foo
ImportedBindings ==
    { ImportSpecifier("foo", "foo"),
      ImportSpecifier("bar", "foo"),
      ImportDefaultSpecifier("foo"),
      ImportDefaultSpecifier("bar"),
      ImportNamespaceSpecifier("foo") }

\* a.js: export function foo() {}; export default function foo() {};
\* function foo() {} (not exported); nothing.
ExportingContents ==
    { SourceOf(<<ExportFoo>>),
      SourceOf(<<ExportDefaultDeclaration(FunctionDeclaration("foo", <<>>))>>),
      SourceOf(<<FunctionDeclaration("foo", <<>>)>>),
      SourceOf(<<>>) }

\* b.js: the import, from "./a.js" or from b.js itself, and function g
\* calling foo(), bar(), or both; the same calls at the top level;
\* function foo calling itself; function foo next to g calling foo();
\* export default function foo calling bar().
ImportingContents ==
    { SourceOf(<<ImportDeclaration(<<".", "/", from, ".js">>, <<sp>>)>> \o rest) :
        from \in {"a", "b"},
        sp \in ImportedBindings,
        rest \in { <<FunctionDeclaration("g", <<CallFoo>>)>>,
                   <<FunctionDeclaration("g", <<CallBar>>)>>,
                   <<FunctionDeclaration("g", <<CallFoo, CallBar>>)>>,
                   <<CallFoo, CallBar>>,
                   <<FunctionDeclaration("foo", <<CallFoo>>)>>,
                   <<FunctionDeclaration("foo", <<>>), FunctionDeclaration("g", <<CallFoo>>)>>,
                   <<ExportDefaultDeclaration(FunctionDeclaration("foo", <<CallBar>>))>> } }

ImportedCallDisks ==
    { (RootDir :> DirEntry)
      @@ (PathJoin(RootDir, FileA) :> a) @@ (PathJoin(RootDir, FileB) :> b) :
        a \in ExportingContents, b \in ImportingContents }

InitImports == InitSymOn(ImportedCallDisks)

SpecImports == InitImports /\ [][NextSym]_vars

\* The import specifiers of a parsed file as written: local name, imported
\* name ("default" for a default import) and the resolved target file.
WrittenBindings(file) ==
    LET body == TreeOf(file).kids
        decls == SelectSeq(body, LAMBDA n : n.type = "ImportDeclaration")
    IN  UNION { { [local |-> d.specifiers[k].local,
                   imported |-> IF d.specifiers[k].type = "ImportDefaultSpecifier"
                                THEN "default" ELSE d.specifiers[k].imported,
                   type |-> d.specifiers[k].type,
                   target |-> ResolveImport(fs, d.value, PathJoin(RootDir, file), RootDir)] :
                  k \in 1..Len(d.specifiers) } : d \in Range(decls) }

\* The name of the declaration a file exports as its default, in a set.
DefaultExportNames(file) ==
    { n.kids[1].name : n \in { m \in Range(TreeOf(file).kids) :
                                 m.type = "ExportDefaultDeclaration" } }

\* The symbols of the target file that the binding refers to.
ReferredSymbols(res, binding) ==
    LET names == IF binding.type = "ImportDefaultSpecifier"
                 THEN DefaultExportNames(binding.target)
                 ELSE {binding.imported}
    IN  { SymbolId(binding.target, NameOf(n)) : n \in names }
        \cap SymbolIdsIn(res, binding.target)

\* The calls of a named callee inside function g of b.js, as callee names.
CalledInG ==
    UNION { { c.name : c \in { x \in Range(n.kids) : x.type = "CallExpression" } } :
              n \in { m \in Range(TreeOf(FileB).kids) :
                        m.type = "FunctionDeclaration" /\ m.name = "g" } }

\* C21: a call inside a known symbol of the importing file, of a name that
\* is the local binding of a resolved named or default import (aliased or
\* not), has a calls edge from the caller to the symbol of the target file
\* the import refers to, when that symbol exists.
C21_ImportedCallHasEdge ==
    SymDone =>
        \A binding \in { b \in WrittenBindings(FileB) :
                           /\ b.type # "ImportNamespaceSpecifier"
                           /\ b.target # Null
                           /\ b.local \in CalledInG } :
            \A target \in ReferredSymbols(result, binding) :
                \E i \in 1..Len(result.edges) :
                    /\ result.edges[i].source = SymbolId(FileB, NameOf("g"))
                    /\ result.edges[i].target = target
                    /\ result.edges[i].type = "calls"

-----------------------------------------------------------------------------
(* Method calls inside one file: a.js is up to MaxMembers of the            *)
(* declarations below, and the only file on the disk.                       *)

\*   class C { m() {} }            class D { m() {} }
\*   class C { m() { o.m(); } }    class D { n() { D.m(); } }
\*   function g() { D.m(); }       function g() { o.m(); }
\*   function g() { C.m(); o.m(); }
\*   function m() {}
MemberDeclarations ==
    { ClassDeclaration("C", "", <<EmptyMethod("m", "method")>>),
      ClassDeclaration("D", "", <<EmptyMethod("m", "method")>>),
      ClassDeclaration("C", "", <<ClassMethod("m", "method", <<MemberCall("o", "m", <<>>)>>)>>),
      ClassDeclaration("D", "", <<ClassMethod("n", "method", <<MemberCall("D", "m", <<>>)>>)>>),
      FunctionDeclaration("g", <<MemberCall("D", "m", <<>>)>>),
      FunctionDeclaration("g", <<MemberCall("o", "m", <<>>)>>),
      FunctionDeclaration("g", <<MemberCall("C", "m", <<>>), MemberCall("o", "m", <<>>)>>),
      FunctionDeclaration("m", <<>>) }

MethodCallDisks ==
    { (RootDir :> DirEntry) @@ (PathJoin(RootDir, FileA) :> SourceOf(body)) :
        body \in SeqUpTo(MemberDeclarations, MaxMembers) }

InitMethods == InitSymOn(MethodCallDisks)

SpecMethods == InitMethods /\ [][NextSym]_vars

\* The first pass over the only file has just ended.
AfterIntraFilePass == pc = "sym_pass1" /\ idx = 2 /\ Len(uniqueFiles) = 1

\* The id of the last symbol of the file with that name; Null for none.
KnownSymbol(name) ==
    LET at == {i \in 1..Len(allSymbols) : allSymbols[i].name = name}
    IN  IF at = {} THEN Null ELSE allSymbols[CHOOSE i \in at : \A j \in at : j <= i].id

\* The indices of the methods of the file whose method name is m.
MethodsNamed(m) ==
    {i \in 1..Len(allSymbols) :
        allSymbols[i].type = "method" /\ Last(allSymbols[i].name) = m}

\* The call is obj.m() from a known symbol, the file has no symbol named m
\* and at least one method named m.
IsMethodGuess(call) ==
    /\ KnownSymbol(call.caller) # Null
    /\ call.objectName # ""
    /\ KnownSymbol(<<call.callee>>) = Null
    /\ MethodsNamed(call.callee) # {}

\* The method the call is described to be linked to.
GuessedTarget(call) ==
    LET named == MethodsNamed(call.callee)
        qualified == {i \in named :
                        allSymbols[i].name = <<call.objectName, ".", call.callee>>}
        first(S) == CHOOSE i \in S : \A j \in S : i <= j
    IN  IF Cardinality(named) = 1 THEN allSymbols[first(named)].id
        ELSE IF qualified # {} THEN allSymbols[first(qualified)].id
        ELSE allSymbols[first(named)].id

\* The edges described for the call: one, or none when the target is the
\* caller.
GuessedEdges(call) ==
    IF GuessedTarget(call) = KnownSymbol(call.caller) THEN <<>>
    ELSE << <<KnownSymbol(call.caller), GuessedTarget(call), "calls">> >>

\* C22: when every call of the file is obj.m() from a known symbol with no
\* symbol named m and some method named m, the intra-file pass emits for
\* each call, in order, one edge to the only such method, else to the
\* method named obj.m, else to the first such method; and no edge when
\* that target is the caller.
C22_MethodGuess ==
    (AfterIntraFilePass /\ \A i \in 1..Len(fileCalls) : IsMethodGuess(fileCalls[i])) =>
        [i \in 1..Len(allEdges) |-> Triple(allEdges[i])]
            = Flatten([i \in 1..Len(fileCalls) |-> GuessedEdges(fileCalls[i])])

\* The pass has linked D.m() from g to D.m although C.m was extracted
\* first, and o.m() from C.m to nothing.
C22_Witness ==
    /\ AfterIntraFilePass
    /\ Len(fileCalls) = 2
    /\ \A i \in 1..2 : IsMethodGuess(fileCalls[i])
    /\ Cardinality(MethodsNamed("m")) = 2
    /\ fileCalls[1].objectName = "o"
    /\ GuessedEdges(fileCalls[1]) = <<>>
    /\ fileCalls[2].objectName = "D"
    /\ Len(allEdges) = 1
    /\ allEdges[1].target = SymbolId(FileA, <<"D", ".", "m">>)

\* The receiver of the call is the name of a symbol of the calling file.
ReceiverIsLocalSymbol(call) ==
    call.objectName # "" /\ KnownSymbol(<<call.objectName>>) # Null

\* C23: a call obj.m() whose receiver obj is a symbol of the calling file
\* gets no residual edge: when every call of the only file is such a call,
\* the returned calls edges are those of the intra-file pass and none goes
\* to a same-named method of another class.
C23_NoResidualForLocalReceiver ==
    (SymDone /\ Len(uniqueFiles) = 1
      /\ \A i \in 1..Len(fileCalls) :
             IsMethodGuess(fileCalls[i]) /\ ReceiverIsLocalSymbol(fileCalls[i])) =>
        {Triple(result.edges[i]) : i \in 1..Len(result.edges)}
            \subseteq UNION {Range(GuessedEdges(fileCalls[i])) : i \in 1..Len(fileCalls)}

-----------------------------------------------------------------------------
(* Variable declarations: a.js is up to MaxDeclarations of the statements   *)
(* below, and the only file on the disk.                                    *)

Declare(n, init) == VariableDeclaration(<<VariableDeclarator(n, init)>>)

\*   var bar = 1;                 export var bar = 1;
\*   const foo = () => {};        export const foo = () => {};
\*   const foo = function () {};  var bar;
\*   var x = 1;                   const lib = require("./lib");
\*   function g() { var bar = 1; }
VariableStatements ==
    { Declare("bar", <<NumericLiteral>>),
      ExportNamedDeclaration(<<Declare("bar", <<NumericLiteral>>)>>, <<>>),
      Declare("foo", <<ArrowFunctionExpression(<<>>)>>),
      ExportNamedDeclaration(<<Declare("foo", <<ArrowFunctionExpression(<<>>)>>)>>, <<>>),
      Declare("foo", <<FunctionExpression(<<>>)>>),
      Declare("bar", <<>>),
      Declare("x", <<NumericLiteral>>),
      Declare("lib", <<Call("require", <<StringLiteral(<<".", "/", "lib">>)>>)>>),
      FunctionDeclaration("g", <<Declare("bar", <<NumericLiteral>>)>>) }

VariableDisks ==
    { (RootDir :> DirEntry) @@ (PathJoin(RootDir, FileA) :> SourceOf(body)) :
        body \in SeqUpTo(VariableStatements, MaxDeclarations) }

InitVariables == InitSymOn(VariableDisks)

SpecVariables == InitVariables /\ [][NextSym]_vars

\* The declarators of the top-level and exported variable declarations of
\* a.js, in order.
TopLevelDeclarators ==
    Flatten([i \in 1..Len(TreeOf(FileA).kids) |->
        LET st == TreeOf(FileA).kids[i]
        IN  IF st.type = "VariableDeclaration" THEN st.kids
            ELSE IF st.type = "ExportNamedDeclaration" /\ st.kids # <<>>
                    /\ st.kids[1].type = "VariableDeclaration"
            THEN st.kids[1].kids
            ELSE <<>>])

\* A plain identifier name of at least two characters, and an initializer
\* that is not a require(...) call.
YieldsSymbol(d) ==
    /\ d.kind = "Identifier"
    /\ Len(d.name) >= 2
    /\ ~(d.kids # <<>> /\ d.kids[1].type = "CallExpression" /\ d.kids[1].name = "require")

\* The kind described for the symbol of the declarator.
KindOf(d) ==
    IF d.kids # <<>> /\ d.kids[1].type \in {"ArrowFunctionExpression", "FunctionExpression"}
    THEN "function" ELSE "variable"

\* C24: the returned symbols with id a.js::name and a given kind are as
\* many as the top-level or exported declarators of that name and kind
\* that have a plain name of two or more characters and no require(...)
\* initializer: each such declarator yields exactly one symbol.
C24_OneSymbolPerDeclarator ==
    SymDone =>
        \A n \in {"foo", "bar", "lib", "x"}, kind \in {"function", "variable"} :
            Cardinality({i \in 1..Len(result.symbols) :
                            /\ result.symbols[i].id = SymbolId(FileA, NameOf(n))
                            /\ result.symbols[i].type = kind})
            = Cardinality({i \in 1..Len(TopLevelDeclarators) :
                            /\ TopLevelDeclarators[i].name = n
                            /\ YieldsSymbol(TopLevelDeclarators[i])
                            /\ KindOf(TopLevelDeclarators[i]) = kind})

-----------------------------------------------------------------------------
(* Branches: a.js is `function g() { ... }` with up to MaxStatements of     *)
(* the statements below as its body, and the only file on the disk.         *)

TestBar == <<"bar", "(", ")">>

\*   if (X) { bar(); }                    if (X) { bar(); } else { foo(); }
\*   if (X) {} else { foo(); }            if (bar()) { foo(); }
\*   if (X) {} else if (bar()) { foo(); } X ? bar() : foo();
\*   bar() ? foo() : foo();               if (X) { Y ? bar() : foo(); }
BranchStatements ==
    { If("X", <<CallBar>>),
      IfElse("X", <<CallBar>>, <<CallFoo>>),
      IfElse("X", <<>>, <<CallFoo>>),
      IfStatement(TestBar, <<CallBar>>, <<CallFoo>>, FALSE, <<>>),
      IfElse("X", <<>>, <<IfStatement(TestBar, <<CallBar>>, <<CallFoo>>, FALSE, <<>>)>>),
      ConditionalExpression(<<"X">>, <<Identifier("X")>>, <<CallBar>>, <<CallFoo>>),
      ConditionalExpression(TestBar, <<CallBar>>, <<CallFoo>>, <<CallFoo>>),
      If("X", <<ConditionalExpression(<<"Y">>, <<Identifier("Y")>>, <<CallBar>>, <<CallFoo>>)>>) }

BranchDisks ==
    { (RootDir :> DirEntry)
      @@ (PathJoin(RootDir, FileA) :> SourceOf(<<FunctionDeclaration("g", body)>>)) :
        body \in SeqUpTo(BranchStatements, MaxStatements) }

InitBranches == InitSymOn(BranchDisks)

SpecBranches == InitBranches /\ [][NextSym]_vars

\* The part of the if statement or ternary at p[k] that holds the next
\* node of the path: its test, its consequent or its alternate.
PartHolding(p, k) ==
    LET scope == p[k].node
        child == p[k + 1].start
        testEnd == p[k].start + 1 + SizeOfAll(scope.test)
    IN  IF child < testEnd THEN "test"
        ELSE IF scope.hasAlt /\ child >= AltStart(scope, p[k].start) THEN "alternate"
        ELSE "consequent"

\* The tags of the two branches of the node.
ThenTag(scope) == IF scope.type = "IfStatement" THEN "if" ELSE "?"

ElseTag(scope) == IF scope.type = "IfStatement" THEN "else" ELSE ":"

\* C25: the branch tag of a recorded condition is the else tag exactly when
\* the call lies inside the alternate of the innermost if statement or
\* ternary around it, and the then tag exactly when it lies inside the
\* consequent.
C25_BranchTagNamesBranch ==
    InTurn =>
        LET sites == SelectSeq(CallPaths(TreeOf(TurnFile)), EnclosedByNamed)
        IN  \A i \in 1..Len(fileCalls) :
                fileCalls[i].conditions # <<>> =>
                    LET p == sites[i]
                        k == CHOOSE n \in ConditionsAround(p) :
                                 \A j \in ConditionsAround(p) : j <= n
                        tag == fileCalls[i].conditions[1].branch
                    IN  /\ tag = ElseTag(p[k].node) <=> PartHolding(p, k) = "alternate"
                        /\ tag = ThenTag(p[k].node) <=> PartHolding(p, k) = "consequent"

-----------------------------------------------------------------------------
(* Claims about the server's cache, checked on SpecServer.                  *)

\* C26: a POST /api/analyze that ends with status 500 leaves the cache as it
\* was: when every request received so far is such a POST, cachedGraph,
\* cachedTarget and cachedSymbols are still unset.
C26_FailedAnalysisLeavesCache ==
    (\A i \in 1..Len(requests) :
        requests[i].kind = "analyze" /\ requests[i].status = 500) =>
        /\ cachedGraph = Null
        /\ cachedTarget = Null
        /\ cachedSymbols = Null

\* C28: once two or more POST /api/analyze requests, not all for the same
\* root, have all been answered with success and nothing else was received,
\* the cached graph, target and symbols come from one analysis of one root.
C28_QuiescentCacheIsOneAnalysis ==
    (/\ Len(requests) >= 2
     /\ \E i, j \in 1..Len(requests) : requests[i].root # requests[j].root
     /\ \A i \in 1..Len(requests) :
            requests[i].kind = "analyze" /\ requests[i].status = 200) =>
        /\ RunOf(cachedSymbols) = RunOf(cachedGraph)
        /\ RootOf(cachedSymbols) = cachedTarget
        /\ RootOf(cachedGraph) = cachedTarget

-----------------------------------------------------------------------------
(* Further claims about the returned symbol graph, checked on SpecSym.      *)

\* C27: the conditions of every returned calls edge are among the
\* (condition, branch) pairs its own (source, target, kind) was emitted
\* with: a merge into one edge adds nothing to any other edge.
C27_ConditionsComeFromOwnTriple ==
    SymDone =>
        \A i \in 1..Len(result.edges) :
            result.edges[i].type = "calls" =>
                Range(result.edges[i].conditions)
                    \subseteq EmittedUnion(Triple(result.edges[i]))

-----------------------------------------------------------------------------
(* Further claims about imports, checked on SpecImports.                    *)

RecordedImports ==
    UNION { { <<fileImports[f].key, fileImports[f].value[k].localName>> :
                k \in 1..Len(fileImports[f].value) } : f \in 1..Len(fileImports) }

\* The file declares a symbol of that name.
Declares(file, n) ==
    \E i \in 1..Len(result.symbols) :
        result.symbols[i].file = file /\ result.symbols[i].name = NameOf(n)

\* C30: every returned edge of kind imports starts at file::name for a
\* recorded import of `file` under `name` such that `file` itself declares a
\* symbol called `name`; an import whose name the importing file does not
\* declare has no imports edge, whatever the target file holds.
C30_ImportsEdgeNeedsLocalSymbol ==
    SymDone =>
        /\ \A i \in 1..Len(result.edges) :
               result.edges[i].type = "imports" =>
                   \E x \in RecordedImports :
                       /\ result.edges[i].source = SymbolId(x[1], NameOf(x[2]))
                       /\ Declares(x[1], x[2])
        /\ \A x \in RecordedImports :
               ~Declares(x[1], x[2]) =>
                   \A i \in 1..Len(result.edges) :
                       result.edges[i].type = "imports" =>
                           result.edges[i].source # SymbolId(x[1], NameOf(x[2]))

\* A run that returned the imports edge b.js::foo -> a.js::foo, b.js
\* declaring its own foo.
C30_Witness ==
    /\ SymDone
    /\ \E i \in 1..Len(result.edges) :
           /\ result.edges[i].type = "imports"
           /\ result.edges[i].source = SymbolId(FileB, NameOf("foo"))
           /\ result.edges[i].target = SymbolId(FileA, NameOf("foo"))

====
